---------------------------- MODULE Spec2Model ----------------------------
(***************************************************************************)
(* Model of gutenbird: the SVG template slot tokenizer (src/bird.py) and   *)
(* the slot-filling layout engine of the card maker (src/cardmaker.py).    *)
(*                                                                         *)
(* Strings are sequences of one-character strings, so that the string      *)
(* operations of the code (endswith, lower, strip, replace, "in") are      *)
(* computed and not assumed.  A document tree is an arena: a function from *)
(* node ids to node records; the children of a node are the nodes naming   *)
(* it as parent, in increasing id order.                                   *)
(***************************************************************************)
EXTENDS Integers, Sequences, FiniteSets, TLC

VARIABLES
    file,            \* the template document on disk (svg_path)
    tree,            \* SVGTokenizer.tree / root: the parsed, mutable document
    matched_groups,  \* SVGTokenizer.matched_groups
    last,            \* the last tokenizer call and what it returned
    args,            \* the arguments of process_image_set and the item source
    pc,              \* position inside process_image_set / main
    processed_sets,  \* processed_sets: sequence of [name, items]
    set_lookup,      \* set_lookup of annotate_sets_with_meta
    tpl,             \* (slots_per_page, slice_size) of load_template_info
    all_slices,      \* the slice stream of collect_all_slices
    page_plans,      \* the page plans of the layout step ("None" or a sequence)
    stats,           \* the run outcome record
    svg_pages,       \* number of pages written by create_svg_pages
    exit_code,       \* return value of main, -1 while running
    wal_file,        \* the cache log on disk (cache_path): rows, or unreadable
    src_files,       \* the source images on disk: timestamp and content
    image_sets,      \* the argument of process_image_sets
    cache,           \* the in-memory cache dict of process_image_sets
    wal_queue,       \* wal_queue: the entries not yet taken by the writer
    unfinished_tasks,\* wal_queue.unfinished_tasks, what join() waits for
    stop_event,      \* stop_event.is_set()
    writer_thread,   \* position and local entry of wal_writer_thread
    futures,         \* the worker calls submitted for the current set
    results,         \* results of the current set, in completion order
    main_thread,     \* position of the main thread in process_image_sets
    put_history      \* every entry a worker has put, in the order of the puts

tokVars == <<file, tree, matched_groups, last>>
runVars == <<args, pc, processed_sets, set_lookup, tpl, all_slices, page_plans,
             stats, svg_pages, exit_code>>
walVars == <<wal_file, src_files, image_sets, cache, wal_queue, unfinished_tasks,
             stop_event, writer_thread, futures, results, main_thread, put_history>>
vars == <<file, tree, matched_groups, last, args, pc, processed_sets, set_lookup,
          tpl, all_slices, page_plans, stats, svg_pages, exit_code,
          wal_file, src_files, image_sets, cache, wal_queue, unfinished_tasks,
          stop_event, writer_thread, futures, results, main_thread, put_history>>

(***************************************************************************)
(* Bounds of the model.                                                    *)
(***************************************************************************)
MaxNodes == 4
MaxNew == 2
MaxSets == 2
MaxCards == 2
MaxSlots == 4
MaxParity == 2
MaxCopies == 2

(***************************************************************************)
(* Strings.                                                                *)
(***************************************************************************)
\* no document: SVGTokenizer.tree is None
NoTree == <<>>

\* str.endswith
EndsWith(s, suf) ==
    /\ Len(s) >= Len(suf)
    /\ SubSeq(s, Len(s) - Len(suf) + 1, Len(s)) = suf

LowerChar(c) ==
    CASE c = "T" -> "t"
      [] c = "X" -> "x"
      [] c = "A" -> "a"
      [] c = "B" -> "b"
      [] OTHER -> c

\* str.lower
Lower(s) == [i \in 1..Len(s) |-> LowerChar(s[i])]

\* sub in s
Contains(s, sub) ==
    \E i \in 1..(Len(s) - Len(sub) + 1) : SubSeq(s, i, i + Len(sub) - 1) = sub

IsSpace(c) == c \in {" ", "\n", "\t"}

RECURSIVE LStrip(_)
LStrip(s) == IF s # <<>> /\ IsSpace(Head(s)) THEN LStrip(Tail(s)) ELSE s

RECURSIVE RStrip(_)
RStrip(s) ==
    IF s # <<>> /\ IsSpace(s[Len(s)]) THEN RStrip(SubSeq(s, 1, Len(s) - 1)) ELSE s

\* str.strip
Strip(s) == RStrip(LStrip(s))

\* str.replace(old, new), old non-empty: leftmost non-overlapping occurrences
RECURSIVE Replace(_, _, _)
Replace(s, old, new) ==
    IF Len(s) < Len(old) THEN s
    ELSE IF SubSeq(s, 1, Len(old)) = old
         THEN new \o Replace(SubSeq(s, Len(old) + 1, Len(s)), old, new)
         ELSE <<Head(s)>> \o Replace(Tail(s), old, new)

RECURSIVE Concat(_)
Concat(ss) == IF ss = <<>> THEN <<>> ELSE Head(ss) \o Concat(Tail(ss))

\* a finite set of integers as an increasing sequence
RECURSIVE SortedSeq(_)
SortedSeq(S) ==
    IF S = {} THEN <<>>
    ELSE LET m == CHOOSE x \in S : \A y \in S : x <= y
         IN <<m>> \o SortedSeq(S \ {m})

Digits == <<"0", "1", "2", "3", "4", "5", "6", "7", "8", "9">>

\* f"{i:03d}"
Format03d(i) ==
    IF i >= 1000 THEN <<"*">>
    ELSE <<Digits[(i \div 100) + 1], Digits[((i \div 10) % 10) + 1], Digits[(i % 10) + 1]>>

\* int(s) for a string of decimal digits
RECURSIVE ParseInt(_)
ParseInt(s) ==
    IF s = <<>> THEN 0
    ELSE 10 * ParseInt(SubSeq(s, 1, Len(s) - 1))
         + (CHOOSE d \in 0..9 : Digits[d + 1] = s[Len(s)])

(***************************************************************************)
(* Tags, attribute keys and values.  The namespace prefix that ElementTree *)
(* puts in front of a tag ("{http://www.w3.org/2000/svg}") is left out: the *)
(* code looks at the end of the tag only.                                  *)
(***************************************************************************)
TagSvg == <<"s", "v", "g">>
TagG == <<"g">>
TagA == <<"a">>
TagText == <<"t", "e", "x", "t">>
TagTspan == <<"t", "s", "p", "a", "n">>
TagImage == <<"i", "m", "a", "g", "e">>
TagRect == <<"r", "e", "c", "t">>
TagTitle == <<"t", "i", "t", "l", "e">>

XlinkHref == "{http://www.w3.org/1999/xlink}href"
Href == "href"
Style == "style"
AttrX == "x"
AttrKeyOrder == <<AttrX, Style, XlinkHref, Href>>

Marker == <<"t", "x", "t">>
Teal == <<"#", "0", "0", "8", "0", "8", "0">>
Black == <<"#", "0", "0", "0", "0", "0", "0">>

\* dict as a set of <<key, value>> pairs with one pair per key
AttrHas(a, k) == \E p \in a : p[1] = k
AttrGet(a, k, default) ==
    IF AttrHas(a, k) THEN (CHOOSE p \in a : p[1] = k)[2] ELSE default
AttrSet(a, k, v) == {p \in a : p[1] # k} \cup {<<k, v>>}
AttrKeys(a) == {p[1] : p \in a}

(***************************************************************************)
(* The document arena.                                                     *)
(***************************************************************************)
Detached == -2

Node(tag, parent, attrib, text, tail) ==
    [tag |-> tag, parent |-> parent, attrib |-> attrib, text |-> text, tail |-> tail]

\* list(element): the children in document order
Children(t, n) == SortedSeq({m \in DOMAIN t : t[m].parent = n})

\* Element.itertext(): the text, then each child's itertext and tail
RECURSIVE IterText(_, _)
IterText(t, n) ==
    LET ch == Children(t, n)
    IN t[n].text \o Concat([i \in 1..Len(ch) |-> IterText(t, ch[i]) \o t[ch[i]].tail])

\* Element.clear(): no attributes, no text, no tail, no children
Clear(t, n) ==
    [m \in DOMAIN t |->
        IF m = n THEN [t[m] EXCEPT !.attrib = {}, !.text = <<>>, !.tail = <<>>]
        ELSE IF t[m].parent = n THEN [t[m] EXCEPT !.parent = Detached]
        ELSE t[m]]

\* ET.tostring(element, encoding='unicode'), without namespace declarations
RECURSIVE ETtostring(_, _)
ETtostring(t, n) ==
    LET ch == Children(t, n)
        a == t[n].attrib
        attrs == Concat([i \in 1..Len(AttrKeyOrder) |->
                    IF AttrHas(a, AttrKeyOrder[i])
                    THEN <<" ", AttrKeyOrder[i], "=", "\"">>
                         \o AttrGet(a, AttrKeyOrder[i], <<>>) \o <<"\"">>
                    ELSE <<>>])
        inner == t[n].text \o Concat([i \in 1..Len(ch) |-> ETtostring(t, ch[i])])
    IN (IF inner = <<>>
        THEN <<"<">> \o t[n].tag \o attrs \o <<" ", "/", ">">>
        ELSE <<"<">> \o t[n].tag \o attrs \o <<">">> \o inner
             \o <<"<", "/">> \o t[n].tag \o <<">">>)
       \o t[n].tail

(***************************************************************************)
(* SVGToken, GroupMatch and the tokenizer (src/bird.py).                   *)
(***************************************************************************)
\* SVGToken(type, content, element, position) with __post_init__
SVGToken(type, content, element, position) ==
    LET original_content == <<>>
    IN [type |-> type, content |-> content, element |-> element, position |-> position,
        original_content |-> IF original_content = <<>> THEN content ELSE original_content]

GroupMatch(element, tokens, position, group_id) ==
    [element |-> element, tokens |-> tokens, position |-> position, group_id |-> group_id]

get_tokens_by_type(group, token_type) ==
    {i \in DOMAIN group.tokens : group.tokens[i].type = token_type}

is_group_element(t, n) == EndsWith(t[n].tag, <<"g">>)
is_text_element(t, n) == EndsWith(t[n].tag, TagText)
is_image_element(t, n) == EndsWith(t[n].tag, TagImage)

extract_text_content(t, n) == Strip(IterText(t, n))

extract_image_href(t, n) ==
    IF AttrHas(t[n].attrib, XlinkHref) THEN AttrGet(t[n].attrib, XlinkHref, <<>>)
    ELSE AttrGet(t[n].attrib, Href, <<>>)

contains_target_identifier(text) == Contains(Lower(text), Marker)

\* a faulty variant: the rule against child groups is left out
is_eligible_group_nested_allowed(t, group) ==
    LET ch == Children(t, group)
    IN /\ \E i \in 1..Len(ch) :
            /\ is_text_element(t, ch[i])
            /\ contains_target_identifier(extract_text_content(t, ch[i]))
       /\ \E i \in 1..Len(ch) : ~is_text_element(t, ch[i]) /\ is_image_element(t, ch[i])

\* a faulty variant: an image child is not asked for
is_eligible_group_text_only(t, group) ==
    LET ch == Children(t, group)
    IN /\ \A i \in 1..Len(ch) : ~is_group_element(t, ch[i])
       /\ \E i \in 1..Len(ch) :
            /\ is_text_element(t, ch[i])
            /\ contains_target_identifier(extract_text_content(t, ch[i]))

is_eligible_group(t, group) ==
    LET ch == Children(t, group)
        has_eligible_text ==
            \E i \in 1..Len(ch) :
                /\ is_text_element(t, ch[i])
                /\ contains_target_identifier(extract_text_content(t, ch[i]))
        has_image ==
            \E i \in 1..Len(ch) :
                /\ ~is_text_element(t, ch[i])
                /\ is_image_element(t, ch[i])
    IN /\ \A i \in 1..Len(ch) : ~is_group_element(t, ch[i])
       /\ has_eligible_text
       /\ has_image

RECURSIVE traverse_groups(_, _)
traverse_groups(t, element) ==
    LET ch == Children(t, element)
    IN Concat([i \in 1..Len(ch) |->
            IF is_group_element(t, ch[i])
            THEN (IF is_eligible_group(t, ch[i]) THEN <<ch[i]>> ELSE <<>>)
                 \o traverse_groups(t, ch[i])
            ELSE <<>>])

find_eligible_groups(t) == IF DOMAIN t # {} THEN traverse_groups(t, 0) ELSE <<>>

create_token_from_element(t, element, position) ==
    IF is_text_element(t, element)
    THEN LET text_content == extract_text_content(t, element)
         IN SVGToken(IF contains_target_identifier(text_content) THEN "label" ELSE "other",
                     text_content, element, position)
    ELSE IF is_image_element(t, element)
    THEN SVGToken("image", extract_image_href(t, element), element, position)
    ELSE SVGToken("other", ETtostring(t, element), element, position)

tokenize_group(t, group) ==
    LET ch == Children(t, group)
    IN [i \in 1..Len(ch) |-> create_token_from_element(t, ch[i], i - 1)]

\* the matched groups parse_and_tokenize builds from the parsed tree t
tokenize_document(t) ==
    LET eligible_groups == find_eligible_groups(t)
    IN [i \in 1..Len(eligible_groups) |->
            GroupMatch(eligible_groups[i], tokenize_group(t, eligible_groups[i]), i - 1,
                       <<"g", "r", "o", "u", "p", "_">> \o Format03d(i - 1))]

get_group_by_position(mg, position) ==
    IF \E i \in DOMAIN mg : mg[i].position = position
    THEN CHOOSE i \in DOMAIN mg :
            /\ mg[i].position = position
            /\ \A j \in DOMAIN mg : mg[j].position = position => i <= j
    ELSE 0

modify_text_token(t, element, new_content) ==
    LET ch == Children(t, element)
        tspan_elements == SelectSeq(ch, LAMBDA c : EndsWith(t[c].tag, TagTspan))
    IN IF tspan_elements # <<>>
       THEN LET first_tspan == tspan_elements[1]
                t1 == Clear(t, first_tspan)
                t2 == [t1 EXCEPT ![first_tspan].text = new_content]
                first == ch[1]
                a == t2[first].attrib
            IN [t2 EXCEPT ![first].attrib =
                    {<<p[1], IF p[1] = Style /\ Contains(p[2], Teal)
                             THEN Replace(p[2], Teal, Black) ELSE p[2]>> : p \in a}]
       ELSE LET original_attribs == t[element].attrib
                t1 == Clear(t, element)
            IN [t1 EXCEPT ![element].text = new_content,
                          ![element].attrib = original_attribs]

\* a faulty variant: the plain href is always the one written
modify_image_token_plain_only(t, element, new_content) ==
    [t EXCEPT ![element].attrib = AttrSet(@, Href, new_content)]

modify_image_token(t, element, new_content) ==
    IF AttrHas(t[element].attrib, XlinkHref)
    THEN [t EXCEPT ![element].attrib = AttrSet(@, XlinkHref, new_content)]
    ELSE [t EXCEPT ![element].attrib = AttrSet(@, Href, new_content)]

modify_other_token(t, element, new_content) == t

\* a faulty variant: the original content is overwritten too
modify_token_forgets_original(st, g, i, new_content) ==
    [tree |-> st.tree,
     mg |-> [st.mg EXCEPT ![g].tokens[i].content = new_content,
                          ![g].tokens[i].original_content = new_content],
     ret |-> TRUE]

\* modify_token on token i of matched group g: no path of the three helpers raises
\* for a token made by tokenize_group, so the except branch is never taken
modify_token(st, g, i, new_content) ==
    LET token == st.mg[g].tokens[i]
        t1 == IF token.type = "label" THEN modify_text_token(st.tree, token.element, new_content)
              ELSE IF token.type = "image"
              THEN modify_image_token(st.tree, token.element, new_content)
              ELSE modify_other_token(st.tree, token.element, new_content)
    IN [tree |-> t1,
        mg |-> [st.mg EXCEPT ![g].tokens[i].content = new_content],
        ret |-> TRUE]

\* modify_token applied in turn to the tokens idx[1], idx[2], ... of group g
RECURSIVE modify_each(_, _, _, _)
modify_each(st, g, idx, new_content) ==
    IF idx = <<>> THEN st
    ELSE LET r == modify_token(st, g, Head(idx), new_content)
         IN modify_each([tree |-> r.tree, mg |-> r.mg, ret |-> st.ret /\ r.ret],
                        g, Tail(idx), new_content)

modify_group_labels(st, group_position, new_label) ==
    LET g == get_group_by_position(st.mg, group_position)
    IN IF g = 0 THEN [st EXCEPT !.ret = FALSE]
       ELSE modify_each([st EXCEPT !.ret = TRUE], g,
                        SortedSeq(get_tokens_by_type(st.mg[g], "label")), new_label)

modify_group_images(st, group_position, new_image_href) ==
    LET g == get_group_by_position(st.mg, group_position)
    IN IF g = 0 THEN [st EXCEPT !.ret = FALSE]
       ELSE modify_each([st EXCEPT !.ret = TRUE], g,
                        SortedSeq(get_tokens_by_type(st.mg[g], "image")), new_image_href)

\* the (group, token) pairs in the order reset_modifications visits them
TokenOrder(mg) ==
    Concat([g \in 1..Len(mg) |-> [i \in 1..Len(mg[g].tokens) |-> <<g, i>>]])

RECURSIVE reset_each(_, _)
reset_each(st, order) ==
    IF order = <<>> THEN st
    ELSE LET g == Head(order)[1]
             i == Head(order)[2]
             token == st.mg[g].tokens[i]
         IN IF token.content # token.original_content
            THEN LET r == modify_token(st, g, i, token.original_content)
                 IN reset_each([tree |-> r.tree, mg |-> r.mg, ret |-> st.ret], Tail(order))
            ELSE reset_each(st, Tail(order))

\* a faulty variant: only the tokens that have a document effect are reset
reset_modifications_skips_other(st) ==
    reset_each(st, SelectSeq(TokenOrder(st.mg),
                             LAMBDA p : st.mg[p[1]].tokens[p[2]].type # "other"))

reset_modifications(st) == reset_each(st, TokenOrder(st.mg))

\* get_statistics()['modified_tokens']
modified_tokens(mg) ==
    LET order == TokenOrder(mg)
    IN Cardinality({k \in 1..Len(order) :
            mg[order[k][1]].tokens[order[k][2]].content
                # mg[order[k][1]].tokens[order[k][2]].original_content})

(***************************************************************************)
(* Template documents.                                                     *)
(***************************************************************************)
TemplateFile(exists, valid, doc, directive) ==
    [exists |-> exists, valid |-> valid, doc |-> doc, directive |-> directive]

RootNode == Node(TagSvg, -1, {}, <<>>, <<>>)

\* the shapes a node of a generated document may take
NodeShapes ==
    { [tag |-> TagG, text |-> <<>>, attrib |-> {}],
      [tag |-> TagA, text |-> <<>>, attrib |-> {}],
      [tag |-> TagSvg, text |-> <<>>, attrib |-> {}],
      [tag |-> TagImage, text |-> <<>>, attrib |-> {<<Href, <<"u">> >>}],
      [tag |-> TagText, text |-> <<"T", "x", "t">>, attrib |-> {}],
      [tag |-> TagText, text |-> <<"t", "x">>, attrib |-> {}] }

RECURSIVE AncestorsOrSelf(_, _)
AncestorsOrSelf(parent, k) ==
    IF k = 0 THEN {0} ELSE {k} \cup AncestorsOrSelf(parent, parent[k])

\* parent functions of the ordered trees with nodes 0..n numbered in pre-order
PreOrderParents(n) ==
    {parent \in [1..n -> 0..(n - 1)] :
        /\ \A m \in 1..n : parent[m] < m
        /\ \A m \in 2..n : parent[m] \in AncestorsOrSelf(parent, m - 1)}

\* the document with nodes 0..n, numbered in pre-order, of the given shapes
DiscoverDoc(n, parent, shape) ==
    [m \in 0..n |->
        IF m = 0 THEN RootNode
        ELSE Node(shape[m].tag, parent[m], shape[m].attrib, shape[m].text, <<>>)]

StyleTeal == <<"f", "i", "l", "l", ":">> \o Teal
NL == <<"\n">>

\* the children of the label <text> node 2, by variant
LabelKids(lv) ==
    CASE lv = "plain" -> {}
      [] lv = "tspan" ->
            { <<5, Node(TagTspan, 2, {<<AttrX, <<"1">> >>, <<Style, StyleTeal>>}, Marker, NL)>> }
      [] lv = "title_tspan" ->
            { <<5, Node(TagTitle, 2, {<<Style, StyleTeal>>}, <<>>, NL)>>,
              <<6, Node(TagTspan, 2, {<<AttrX, <<"1">> >>}, Marker, NL)>> }
      [] lv = "two_tspans" ->
            { <<5, Node(TagTspan, 2, {<<AttrX, <<"1">> >>}, <<"t">>, <<>>)>>,
              <<6, Node(TagTspan, 2, {<<AttrX, <<"2">> >>}, <<"x", "t">>, NL)>> }

ImageAttrib(iv) ==
    CASE iv = "xlink" -> {<<XlinkHref, <<"u">> >>, <<AttrX, <<"1">> >>}
      [] iv = "href" -> {<<Href, <<"v">> >>, <<AttrX, <<"1">> >>}
      [] iv = "both" -> {<<XlinkHref, <<"u">> >>, <<Href, <<"v">> >>}
      [] iv = "none" -> {}

\* the third child of the slot group, or a second slot group
OtherNodes(ov) ==
    CASE ov = "rect" -> { <<4, Node(TagRect, 1, {<<AttrX, <<"1">> >>}, <<>>, NL)>> }
      [] ov = "text" -> { <<4, Node(TagText, 1, {}, <<"a", "b">>, NL)>> }
      [] ov = "group" ->
            { <<7, Node(TagG, 0, {}, <<>>, NL)>>,
              <<8, Node(TagText, 7, {}, <<"t", "x", "t", " ">>, NL)>>,
              <<9, Node(TagImage, 7, {<<Href, <<"v">> >>}, <<>>, NL)>> }

\* a template with one slot group (node 1: label 2, image 3)
TokDoc(lv, ts, iv, ov) ==
    LET nodes == { <<0, RootNode>>,
                   <<1, Node(TagG, 0, {}, NL, NL)>>,
                   <<2, Node(TagText, 1, IF ts THEN {<<Style, StyleTeal>>} ELSE {},
                             IF lv = "plain" THEN <<" ">> \o Marker ELSE <<>>, NL)>>,
                   <<3, Node(TagImage, 1, ImageAttrib(iv), <<>>, NL)>> }
                 \cup LabelKids(lv) \cup OtherNodes(ov)
    IN [m \in {p[1] : p \in nodes} |-> (CHOOSE p \in nodes : p[1] = m)[2]]

\* the new contents of modify calls: the first MaxNew of these
ContentList == << <<"A">>, <<" ">>, <<>>, <<" ", "A">>, <<"B", " ">>, <<"t", "x", "t">> >>
NewContents == {ContentList[k] : k \in 1..MaxNew}

(***************************************************************************)
(* The tokenizer's operations as actions.                                  *)
(***************************************************************************)
Call(op, group, token, content, ret, raised, modified) ==
    [op |-> op, group |-> group, token |-> token, content |-> content, ret |-> ret,
     raised |-> raised, modified |-> modified]

NoCall == Call("init", 0, 0, <<>>, TRUE, "", 0)

ParseAndTokenize ==
    /\ IF ~file.exists
       THEN /\ last' = Call("parse_and_tokenize", 0, 0, <<>>, FALSE, "FileNotFoundError", 0)
            /\ UNCHANGED <<tree, matched_groups>>
       ELSE IF ~file.valid
       THEN /\ last' = Call("parse_and_tokenize", 0, 0, <<>>, FALSE, "ValueError", 0)
            /\ UNCHANGED <<tree, matched_groups>>
       ELSE /\ tree' = file.doc
            /\ matched_groups' = tokenize_document(file.doc)
            /\ last' = Call("parse_and_tokenize", 0, 0, <<>>, TRUE, "", 0)
    /\ UNCHANGED <<file, runVars, walVars>>

TokState == [tree |-> tree, mg |-> matched_groups, ret |-> TRUE]

ModifyToken(g, i, c) ==
    /\ g \in DOMAIN matched_groups
    /\ i \in DOMAIN matched_groups[g].tokens
    /\ LET r == modify_token(TokState, g, i, c)
       IN /\ tree' = r.tree
          /\ matched_groups' = r.mg
          /\ last' = Call("modify_token", g, i, c, r.ret, "", 0)
    /\ UNCHANGED <<file, runVars, walVars>>

ModifyGroupLabels(pos, c) ==
    /\ DOMAIN tree # {}
    /\ LET r == modify_group_labels(TokState, pos, c)
       IN /\ tree' = r.tree
          /\ matched_groups' = r.mg
          /\ last' = Call("modify_group_labels", pos, 0, c, r.ret, "", 0)
    /\ UNCHANGED <<file, runVars, walVars>>

ModifyGroupImages(pos, c) ==
    /\ DOMAIN tree # {}
    /\ LET r == modify_group_images(TokState, pos, c)
       IN /\ tree' = r.tree
          /\ matched_groups' = r.mg
          /\ last' = Call("modify_group_images", pos, 0, c, r.ret, "", 0)
    /\ UNCHANGED <<file, runVars, walVars>>

ResetModifications ==
    /\ DOMAIN tree # {}
    /\ LET r == reset_modifications(TokState)
       IN /\ tree' = r.tree
          /\ matched_groups' = r.mg
          /\ last' = Call("reset_modifications", 0, 0, <<>>, TRUE, "",
                          modified_tokens(matched_groups))
    /\ UNCHANGED <<file, runVars, walVars>>

\* the run variables while only the tokenizer is exercised
RunIdle ==
    /\ args = <<>>
    /\ pc = "idle"
    /\ processed_sets = <<>>
    /\ set_lookup = <<>>
    /\ tpl = <<>>
    /\ all_slices = <<>>
    /\ page_plans = <<>>
    /\ stats = <<>>
    /\ svg_pages = 0
    /\ exit_code = -1

\* process_image_sets has not been called
WalIdle ==
    /\ wal_file = <<>>
    /\ src_files = <<>>
    /\ image_sets = <<>>
    /\ cache = <<>>
    /\ wal_queue = <<>>
    /\ unfinished_tasks = 0
    /\ stop_event = FALSE
    /\ writer_thread = <<>>
    /\ futures = <<>>
    /\ results = <<>>
    /\ main_thread = <<>>
    /\ put_history = <<>>

TokFresh ==
    /\ tree = NoTree
    /\ matched_groups = <<>>
    /\ last = NoCall

\* slot discovery over every small document
InitDiscover ==
    /\ \/ \E n \in 0..MaxNodes :
             \E parent \in PreOrderParents(n), shape \in [1..n -> NodeShapes] :
                file = TemplateFile(TRUE, TRUE, DiscoverDoc(n, parent, shape), <<>>)
       \/ file = TemplateFile(FALSE, TRUE, NoTree, <<>>)
       \/ file = TemplateFile(TRUE, FALSE, NoTree, <<>>)
    /\ TokFresh
    /\ RunIdle
    /\ WalIdle

NextDiscover == ParseAndTokenize

SpecDiscover == InitDiscover /\ [][NextDiscover]_vars

\* modification of the tokens of a one-slot or two-slot template
InitTok ==
    /\ \/ \E lv \in {"plain", "tspan", "title_tspan", "two_tspans"}, ts \in BOOLEAN :
             file = TemplateFile(TRUE, TRUE, TokDoc(lv, ts, "xlink", "rect"), <<>>)
       \/ \E iv \in {"href", "both", "none"}, ov \in {"rect", "text"} :
             file = TemplateFile(TRUE, TRUE, TokDoc("plain", FALSE, iv, ov), <<>>)
       \/ file = TemplateFile(TRUE, TRUE, TokDoc("tspan", TRUE, "both", "group"), <<>>)
    /\ TokFresh
    /\ RunIdle
    /\ WalIdle

NextTok ==
    \/ ParseAndTokenize
    \/ \E g \in 1..2, i \in 1..3, c \in NewContents : ModifyToken(g, i, c)
    \/ \E pos \in 0..2, c \in NewContents : ModifyGroupLabels(pos, c)
    \/ \E pos \in 0..2, c \in NewContents : ModifyGroupImages(pos, c)
    \/ ResetModifications

SpecTok == InitTok /\ [][NextTok]_vars


(***************************************************************************)
(* The layout engine (src/cardmaker.py).  Set names are the integers 1..n  *)
(* in discovery order; a Python None in an integer field is NoneInt.       *)
(***************************************************************************)
NoneInt == -1
ONEPIXEL == <<"data:image/webp;base64,UklGRhYAAABXRUJQVlA4TAoAAAAvAAAAAEX/I/of">>

\* str(i) for 0 <= i < 100
DecStr(i) == IF i < 10 THEN <<Digits[i + 1]>> ELSE <<Digits[(i \div 10) + 1], Digits[(i % 10) + 1]>>

\* a faulty variant: the quotient is rounded down
CeilDiv_rounds_down(a, b) == a \div b

CeilDiv(a, b) == (a + b - 1) \div b

Max2(a, b) == IF a >= b THEN a ELSE b

RECURSIVE SumLens(_)
SumLens(sets) == IF sets = <<>> THEN 0 ELSE Len(Head(sets).items) + SumLens(Tail(sets))

RECURSIVE MaxLens(_)
MaxLens(sets) == IF sets = <<>> THEN 0 ELSE Max2(Len(Head(sets).items), MaxLens(Tail(sets)))

\* list(chunked(seq, size)), size >= 1
\* a faulty variant: a last chunk shorter than size is dropped
chunked_drops_short_tail(seq, size) ==
    [k \in 1..(Len(seq) \div size) |-> SubSeq(seq, (k - 1) * size + 1, k * size)]

chunked(seq, size) ==
    [k \in 1..CeilDiv(Len(seq), size) |->
        SubSeq(seq, (k - 1) * size + 1, IF k * size <= Len(seq) THEN k * size ELSE Len(seq))]

\* generate_test_sets with the card totals the random generator drew
generate_test_sets(card_totals, placeholder) ==
    [idx \in 1..Len(card_totals) |->
        [name |-> idx,
         items |-> [card_idx \in 1..card_totals[idx] |->
                      [label |-> <<"s">> \o DecStr(idx) \o <<"c">> \o DecStr(card_idx),
                       image |-> placeholder]]]]

\* process_image_sets over the discovered files: one item per file, in file order
process_image_sets(file_counts) ==
    [idx \in 1..Len(file_counts) |->
        [name |-> idx,
         items |-> [i \in 1..file_counts[idx] |->
                      [label |-> <<"f">> \o DecStr(idx) \o <<"_">> \o DecStr(i),
                       image |-> <<"data:image/jpg;base64,">> \o DecStr(idx) \o <<"_">> \o DecStr(i)]]]]

\* a faulty variant: the whole set is repeated instead of each item
apply_copies_repeats_the_set(sets, copies) ==
    IF copies <= 1 THEN sets
    ELSE [k \in 1..Len(sets) |->
            [name |-> sets[k].name,
             items |-> [j \in 1..(Len(sets[k].items) * copies) |->
                          sets[k].items[((j - 1) % Len(sets[k].items)) + 1]]]]

apply_copies(sets, copies) ==
    IF copies <= 1 THEN sets
    ELSE [k \in 1..Len(sets) |->
            [name |-> sets[k].name,
             items |-> [j \in 1..(Len(sets[k].items) * copies) |->
                          sets[k].items[((j - 1) \div copies) + 1]]]]

Meta(set, set_index, card_index, copy_index, global_index, copies, placeholder) ==
    [set |-> set, set_index |-> set_index, card_index |-> card_index,
     copy_index |-> copy_index, global_index |-> global_index, copies |-> copies,
     placeholder |-> placeholder]

\* annotate_sets_with_meta: the annotated sets and the set lookup
annotate_sets_with_meta(sets, copies) ==
    [sets |->
        [k \in 1..Len(sets) |->
            [name |-> sets[k].name,
             items |-> [j \in 1..Len(sets[k].items) |->
                [label |-> sets[k].items[j].label,
                 image |-> sets[k].items[j].image,
                 meta |-> Meta(sets[k].name, k - 1,
                               IF copies # 0 THEN (j - 1) \div copies ELSE j - 1,
                               IF copies # 0 THEN (j - 1) % copies ELSE 0,
                               j - 1, copies, FALSE)]]]],
     lookup |->
        [k \in 1..Len(sets) |->
            [name |-> sets[k].name, set_index |-> k - 1, items |-> Len(sets[k].items)]]]

\* a faulty variant: the padding card is not tagged as a placeholder
build_placeholder_card_untagged(placeholder, set_name, lookup) ==
    [label |-> <<>>,
     image |-> placeholder,
     meta |-> Meta(set_name, NoneInt, NoneInt, NoneInt, NoneInt, NoneInt, FALSE)]

build_placeholder_card(placeholder, set_name, lookup) ==
    LET set_index == IF \E k \in DOMAIN lookup : lookup[k].name = set_name
                     THEN lookup[CHOOSE k \in DOMAIN lookup : lookup[k].name = set_name].set_index
                     ELSE NoneInt
    IN [label |-> <<>>,
        image |-> placeholder,
        meta |-> Meta(set_name, set_index, NoneInt, NoneInt, NoneInt, NoneInt, TRUE)]

build_space_entry(item, slot_index, stack_index, cell_index, extra) ==
    [slot |-> slot_index, stack |-> stack_index, cell |-> cell_index,
     set |-> item.meta.set, set_index |-> item.meta.set_index,
     card_index |-> item.meta.card_index, copy_index |-> item.meta.copy_index,
     global_index |-> item.meta.global_index, copies |-> item.meta.copies,
     placeholder |-> item.meta.placeholder, label |-> item.label, extra |-> extra]

PagePlan(items, sets, space) == [items |-> items, sets |-> sets, space |-> space]

\* make_slices, slice_size >= 1 (range() raises ValueError for a step of 0)
make_slices(images, slice_size, set_name, placeholder, lookup) ==
    [k \in 1..CeilDiv(Len(images), slice_size) |->
        LET chunk == SubSeq(images, (k - 1) * slice_size + 1,
                            IF k * slice_size <= Len(images) THEN k * slice_size
                            ELSE Len(images))
        IN [set |-> set_name,
            items |-> chunk \o [j \in 1..(slice_size - Len(chunk)) |->
                                  build_placeholder_card(placeholder, set_name, lookup)]]]

\* a faulty variant: the sets are visited from the last to the first
collect_all_slices_last_set_first(sets, slice_size, placeholder, lookup) ==
    Concat([k \in 1..Len(sets) |->
                make_slices(sets[Len(sets) + 1 - k].items, slice_size,
                            sets[Len(sets) + 1 - k].name, placeholder, lookup)])

collect_all_slices(sets, slice_size, placeholder, lookup) ==
    Concat([k \in 1..Len(sets) |->
                make_slices(sets[k].items, slice_size, sets[k].name, placeholder, lookup)])

\* what a layout function hands back: page plans, None, or an exception
LayoutResult(outcome, plans, cells_per_page, error) ==
    [outcome |-> outcome, plans |-> plans, cells_per_page |-> cells_per_page, error |-> error]

make_placeholder_slice(slice_size, placeholder, lookup) ==
    [set |-> NoneInt,
     items |-> [j \in 1..slice_size |-> build_placeholder_card(placeholder, NoneInt, lookup)]]

\* a variant of the loops below that fills every stack of a page before the next
\* page
page_rows_page_major(slices, slices_per_page, stack_count, rows_per_stack, page_count, slice_size, placeholder, lookup) ==
    LET take_slice(k) == IF k <= Len(slices) THEN slices[k]
                         ELSE make_placeholder_slice(slice_size, placeholder, lookup)
    IN [rows |->
          [pg \in 1..page_count |->
             [row \in 1..slices_per_page |-> take_slice((pg - 1) * slices_per_page + row)]],
        slice_index |-> Len(slices)]

\* a variant of the loops below that drains the slice stream from its end
page_rows_from_the_end(slices, slices_per_page, stack_count, rows_per_stack, page_count, slice_size, placeholder, lookup) ==
    LET passes == [k \in 1..(stack_count * page_count * rows_per_stack) |->
                     [stack_idx |-> (k - 1) \div (page_count * rows_per_stack),
                      page_idx |-> ((k - 1) % (page_count * rows_per_stack)) \div rows_per_stack,
                      row_pos |-> (k - 1) % rows_per_stack]]
        row_index(ps) == ps.stack_idx * rows_per_stack + ps.row_pos
        taken == SelectSeq(passes, LAMBDA ps : row_index(ps) < slices_per_page)
        take_slice(k) == IF k <= Len(slices) THEN slices[Len(slices) + 1 - k]
                         ELSE make_placeholder_slice(slice_size, placeholder, lookup)
        written(pg, row) == {k \in DOMAIN taken :
                                taken[k].page_idx = pg /\ row_index(taken[k]) = row}
    IN [rows |->
          [pg \in 1..page_count |->
             [row \in 1..slices_per_page |->
                IF written(pg - 1, row - 1) = {}
                THEN make_placeholder_slice(slice_size, placeholder, lookup)
                ELSE take_slice(CHOOSE k \in written(pg - 1, row - 1) :
                                   \A j \in written(pg - 1, row - 1) : j <= k)]],
        slice_index |-> IF Len(taken) < Len(slices) THEN Len(taken) ELSE Len(slices)]

\* the rows of every page after the stack / page / row loops of lines 521-527:
\* the k-th pass of the loop body that is not skipped takes the k-th slice
page_rows(slices, slices_per_page, stack_count, rows_per_stack, page_count, slice_size, placeholder, lookup) ==
    LET passes == [k \in 1..(stack_count * page_count * rows_per_stack) |->
                     [stack_idx |-> (k - 1) \div (page_count * rows_per_stack),
                      page_idx |-> ((k - 1) % (page_count * rows_per_stack)) \div rows_per_stack,
                      row_pos |-> (k - 1) % rows_per_stack]]
        row_index(ps) == ps.stack_idx * rows_per_stack + ps.row_pos
        taken == SelectSeq(passes, LAMBDA ps : row_index(ps) < slices_per_page)
        take_slice(k) == IF k <= Len(slices) THEN slices[k]
                         ELSE make_placeholder_slice(slice_size, placeholder, lookup)
        written(pg, row) == {k \in DOMAIN taken :
                                taken[k].page_idx = pg /\ row_index(taken[k]) = row}
    IN [rows |->
          [pg \in 1..page_count |->
             [row \in 1..slices_per_page |->
                IF written(pg - 1, row - 1) = {}
                THEN make_placeholder_slice(slice_size, placeholder, lookup)
                ELSE take_slice(CHOOSE k \in written(pg - 1, row - 1) :
                                   \A j \in written(pg - 1, row - 1) : j <= k)]],
        slice_index |-> IF Len(taken) < Len(slices) THEN Len(taken) ELSE Len(slices)]

\* one PagePlan from the rows of a page (lines 533-563)
plan_of_rows(rows, slice_size, stack_count, rows_per_stack) ==
    LET cells == Concat([r \in 1..Len(rows) |->
                    [c \in 1..Len(rows[r].items) |-> [row_idx |-> r - 1, column_idx |-> c - 1]]])
        item_at(k) == rows[cells[k].row_idx + 1].items[cells[k].column_idx + 1]
    IN PagePlan(
        [k \in 1..Len(cells) |-> item_at(k)],
        [r \in 1..Len(rows) |-> rows[r].set],
        [k \in 1..Len(cells) |->
            LET row_idx == cells[k].row_idx
                stack_index == IF stack_count > 1 THEN row_idx \div rows_per_stack ELSE 0
                row_position == IF stack_count > 1 THEN row_idx % rows_per_stack ELSE row_idx
            IN build_space_entry(item_at(k), k - 1, stack_index,
                                 row_position * slice_size + cells[k].column_idx,
                                 [slice |-> row_idx,
                                  position_in_slice |-> cells[k].column_idx,
                                  row_set |-> rows[row_idx + 1].set])])

ErrTooFewGroups == "Template has too few groups for slice size."
ErrRowsParity == "Rows per page must be divisible by parity."
ErrSlotsCellStack == "Slots per page must be divisible by cell stack."
ErrCellStackParity == "Cell stack mode requires --parity greater than 1."
ErrNoPages == "No pages produced."
ErrCopies == "Copies must be at least 1."
ErrNoSets == "No image sets found."

group_slices_into_pages(slices, slots_per_page, slice_size, placeholder, parity, lookup) ==
    IF slice_size = 0 THEN LayoutResult("ZeroDivisionError", <<>>, NoneInt, "")
    ELSE
    LET slices_per_page == slots_per_page \div slice_size
        stack_count == Max2(1, parity)
        rows_per_page == slices_per_page
    IN IF slices_per_page = 0 THEN LayoutResult("None", <<>>, NoneInt, ErrTooFewGroups)
       ELSE IF stack_count > 1 /\ rows_per_page % stack_count # 0
       THEN LayoutResult("None", <<>>, NoneInt, ErrRowsParity)
       ELSE
       LET rows_per_stack == IF stack_count > 1 THEN rows_per_page \div stack_count
                             ELSE rows_per_page
           cells_per_page == IF stack_count > 1 THEN rows_per_stack * slice_size
                             ELSE slots_per_page
           total_slices == Len(slices)
           page_count == CeilDiv(total_slices, slices_per_page)
           filled == page_rows(slices, slices_per_page, stack_count, rows_per_stack,
                               page_count, slice_size, placeholder, lookup)
       IN IF total_slices = 0 THEN LayoutResult("plans", <<>>, cells_per_page, "")
          ELSE IF filled.slice_index < total_slices
          THEN LayoutResult("RuntimeError", <<>>, NoneInt, "")
          ELSE LayoutResult("plans",
                    [pg \in 1..page_count |->
                        plan_of_rows(filled.rows[pg], slice_size, stack_count, rows_per_stack)],
                    cells_per_page, "")

\* the pages of one group of sets (lines 608-642)
cell_stack_group_pages(group, group_index, cells_per_page, cell_stack, placeholder, lookup) ==
    LET padded_group == group \o [j \in 1..(cells_per_page - Len(group)) |->
                                     [name |-> NoneInt, items |-> <<>>]]
        group_sets == [j \in 1..Len(group) |-> group[j].name]
        max_len == MaxLens(group)
        limit == CeilDiv(max_len, cell_stack)
        item_at(page_idx, stack_idx, cell_index) ==
            LET card_index == page_idx + stack_idx * limit
                entry == padded_group[cell_index + 1]
            IN IF entry.name # NoneInt /\ card_index < Len(entry.items)
               THEN entry.items[card_index + 1]
               ELSE build_placeholder_card(placeholder, entry.name, lookup)
    IN IF max_len = 0 \/ limit <= 0 THEN <<>>
       ELSE [pg \in 1..limit |->
               LET slot_item(k) == item_at(pg - 1, (k - 1) \div cells_per_page,
                                           (k - 1) % cells_per_page)
               IN PagePlan(
                    [k \in 1..(cell_stack * cells_per_page) |-> slot_item(k)],
                    group_sets,
                    [k \in 1..(cell_stack * cells_per_page) |->
                        build_space_entry(slot_item(k), k - 1, (k - 1) \div cells_per_page,
                                          (k - 1) % cells_per_page,
                                          [group_index |-> group_index,
                                           group_set |-> padded_group[((k - 1) % cells_per_page) + 1].name,
                                           page_cycle |-> pg - 1])])]

build_cell_stack_page_plans(sets, slots_per_page, cell_stack, placeholder, lookup) ==
    IF cell_stack <= 1 THEN LayoutResult("ValueError", <<>>, NoneInt, "")
    ELSE IF slots_per_page % cell_stack # 0
    THEN LayoutResult("None", <<>>, NoneInt, ErrSlotsCellStack)
    ELSE LET cells_per_page == slots_per_page \div cell_stack
         IN IF cells_per_page = 0
            THEN \* chunked(ordered_sets, 0): range() raises ValueError for a step of 0
                 LayoutResult("ValueError", <<>>, NoneInt, "")
            ELSE LET groups == chunked(sets, cells_per_page)
                 IN LayoutResult("plans",
                        Concat([g \in 1..Len(groups) |->
                            cell_stack_group_pages(groups[g], g - 1, cells_per_page,
                                                   cell_stack, placeholder, lookup)]),
                        cells_per_page, "")

\* load_template_info: (slots_per_page, slice_size) of the template file
load_template_info(f) ==
    LET slots_per_page == Len(tokenize_document(f.doc))
    IN [slots_per_page |-> slots_per_page,
        slice_size |-> IF f.directive # <<>> THEN ParseInt(f.directive[1])
                       ELSE slots_per_page]


(***************************************************************************)
(* process_image_set and main as steps.                                    *)
(***************************************************************************)
\* a template with k slot groups, each a marked label and an image
SlotTemplate(k) ==
    [m \in 0..(3 * k) |->
        IF m = 0 THEN RootNode
        ELSE IF m % 3 = 1 THEN Node(TagG, 0, {}, <<>>, <<>>)
        ELSE IF m % 3 = 2 THEN Node(TagText, m - 1, {}, Marker, <<>>)
        ELSE Node(TagImage, m - 2, {<<XlinkHref, <<"u">> >>}, <<>>, <<>>)]

Args(testmode, counts, parity, cell_stack_mode, copies) ==
    [testmode |-> testmode, counts |-> counts, parity |-> parity,
     cell_stack_mode |-> cell_stack_mode, copies |-> copies]

NoStats ==
    [status |-> "absent", error |-> "", sets |-> NoneInt, images |-> NoneInt,
     slots_per_page |-> NoneInt, slice_size |-> NoneInt, rows_per_page |-> NoneInt,
     cells_per_page |-> NoneInt, slices |-> NoneInt, page_count |-> NoneInt,
     layout |-> "", set_sequence |-> <<>>]

NoPlans == [none |-> TRUE, plans |-> <<>>]

\* lines 724-772: the item source, copies, annotation
CollectItems ==
    /\ pc = "start"
    /\ IF args.copies < 1
       THEN /\ stats' = [stats EXCEPT !.status = "error", !.error = ErrCopies]
            /\ pc' = "returned"
            /\ UNCHANGED <<processed_sets, set_lookup>>
       ELSE IF ~args.testmode /\ args.counts = <<>>
       THEN /\ stats' = [stats EXCEPT !.sets = 0, !.images = 0, !.status = "error",
                                      !.error = ErrNoSets]
            /\ pc' = "returned"
            /\ UNCHANGED <<processed_sets, set_lookup>>
       ELSE LET found == IF args.testmode THEN generate_test_sets(args.counts, ONEPIXEL)
                         ELSE process_image_sets(args.counts)
                copied == IF args.copies > 1 THEN apply_copies(found, args.copies) ELSE found
                annotated == annotate_sets_with_meta(copied, args.copies)
            IN IF found = <<>>
               THEN /\ stats' = [stats EXCEPT !.sets = 0, !.images = 0]
                    /\ pc' = "returned"
                    /\ UNCHANGED <<processed_sets, set_lookup>>
               ELSE /\ processed_sets' = annotated.sets
                    /\ set_lookup' = annotated.lookup
                    /\ stats' = [stats EXCEPT
                                    !.sets = Len(found),
                                    !.images = SumLens(copied),
                                    !.set_sequence = [k \in 1..Len(annotated.lookup) |->
                                                        annotated.lookup[k].name]]
                    /\ pc' = "items"
    /\ UNCHANGED <<tokVars, walVars, args, tpl, all_slices, page_plans, svg_pages, exit_code>>

\* lines 774-778: load_template_info; a missing or malformed template raises
LoadTemplate ==
    /\ pc = "items"
    /\ IF ~file.exists \/ ~file.valid
       THEN /\ pc' = "crashed"
            /\ UNCHANGED <<tpl, stats>>
       ELSE LET info == load_template_info(file)
            IN /\ tpl' = info
               /\ stats' = [stats EXCEPT
                              !.slots_per_page = info.slots_per_page,
                              !.slice_size = info.slice_size,
                              !.status = "processing",
                              !.rows_per_page = IF info.slice_size # 0
                                                THEN info.slots_per_page \div info.slice_size
                                                ELSE 0]
               /\ pc' = "template"
    /\ UNCHANGED <<tokVars, walVars, args, processed_sets, set_lookup, all_slices, page_plans,
                   svg_pages, exit_code>>

\* a variant of the step below for a layout function that is not handed the
\* statistics: a refusal to lay out leaves no trace in them
AfterLayout_without_stats(r, layout_mode) ==
    /\ page_plans' = [none |-> r.outcome = "None", plans |-> r.plans]
    /\ IF r.outcome = "None"
       THEN /\ stats' = stats
            /\ pc' = "returned"
       ELSE IF r.plans = <<>>
       THEN /\ stats' = [stats EXCEPT !.status = "error", !.error = ErrNoPages]
            /\ pc' = "returned"
       ELSE /\ stats' = [stats EXCEPT !.page_count = Len(r.plans),
                                      !.cells_per_page = r.cells_per_page,
                                      !.layout = layout_mode]
            /\ pc' = "planned"

\* lines 794-821 after a layout function returned page plans or None; the slice
\* layout returns at line 810, before the layout mode is recorded
AfterLayout(r, layout_mode) ==
    LET st == IF r.outcome = "None"
              THEN [stats EXCEPT !.status = "error", !.error = r.error,
                                 !.layout = IF layout_mode = "cell_stack" THEN layout_mode ELSE @]
              ELSE [stats EXCEPT !.page_count = Len(r.plans),
                                 !.cells_per_page = r.cells_per_page,
                                 !.layout = layout_mode]
    IN /\ page_plans' = [none |-> r.outcome = "None", plans |-> r.plans]
       /\ IF r.outcome = "None"
          THEN /\ stats' = st
               /\ pc' = "returned"
          ELSE IF r.plans = <<>>
          THEN /\ stats' = [st EXCEPT !.status = "error", !.error = ErrNoPages]
               /\ pc' = "returned"
          ELSE /\ stats' = st
               /\ pc' = "planned"

\* lines 780-821: the layout step
LayoutPages ==
    /\ pc = "template"
    /\ IF args.cell_stack_mode
       THEN IF args.parity <= 1
            THEN /\ stats' = [stats EXCEPT !.status = "error", !.error = ErrCellStackParity]
                 /\ pc' = "returned"
                 /\ UNCHANGED <<all_slices, page_plans>>
            ELSE LET r == build_cell_stack_page_plans(processed_sets, tpl.slots_per_page,
                                                      args.parity, ONEPIXEL, set_lookup)
                 IN IF r.outcome \notin {"plans", "None"}
                    THEN /\ pc' = "crashed"
                         /\ UNCHANGED <<stats, all_slices, page_plans>>
                    ELSE /\ AfterLayout(r, "cell_stack")
                         /\ UNCHANGED all_slices
       ELSE IF tpl.slice_size = 0
            THEN \* make_slices: range() raises ValueError for a step of 0
                 /\ pc' = "crashed"
                 /\ UNCHANGED <<stats, all_slices, page_plans>>
            ELSE LET slices == collect_all_slices(processed_sets, tpl.slice_size, ONEPIXEL,
                                                  set_lookup)
                     r == group_slices_into_pages(slices, tpl.slots_per_page, tpl.slice_size,
                                                  ONEPIXEL, args.parity, set_lookup)
                 IN /\ all_slices' = slices
                    /\ IF r.outcome \notin {"plans", "None"}
                       THEN /\ pc' = "crashed"
                            /\ UNCHANGED <<stats, page_plans>>
                       ELSE AfterLayout(r, "naive_strip")
    /\ UNCHANGED <<tokVars, walVars, args, processed_sets, set_lookup, tpl, svg_pages, exit_code>>

\* lines 822-841: every page plan is written, converted and merged
Materialize ==
    /\ pc = "planned"
    /\ svg_pages' = Len(page_plans.plans)
    /\ stats' = [stats EXCEPT !.page_count = Len(page_plans.plans), !.status = "ok"]
    /\ pc' = "returned"
    /\ UNCHANGED <<tokVars, walVars, args, processed_sets, set_lookup, tpl, all_slices, page_plans,
                   exit_code>>

\* main, lines 912-915; an exception that escaped ends the process with code 1
MainExit ==
    /\ pc \in {"returned", "crashed"}
    /\ exit_code' = IF pc = "crashed" \/ stats.status # "ok" THEN 1 ELSE 0
    /\ pc' = IF pc = "crashed" THEN "exited_by_exception" ELSE "exited"
    /\ UNCHANGED <<tokVars, walVars, args, processed_sets, set_lookup, tpl, all_slices, page_plans,
                   stats, svg_pages>>

RunFresh ==
    /\ pc = "start"
    /\ processed_sets = <<>>
    /\ set_lookup = <<>>
    /\ tpl = [slots_per_page |-> NoneInt, slice_size |-> NoneInt]
    /\ all_slices = <<>>
    /\ page_plans = NoPlans
    /\ stats = NoStats
    /\ svg_pages = 0
    /\ exit_code = -1

\* what the item source yields: card totals of the synthetic sets (test mode, at
\* least one set) or file counts of the discovered sets (each at least one file)
ItemSources ==
    {<<TRUE, c>> : c \in UNION {[1..n -> 0..MaxCards] : n \in 1..MaxSets}}
    \cup {<<FALSE, c>> : c \in UNION {[1..n -> 1..MaxCards] : n \in 0..MaxSets}}

SliceDirectives == {<<>>} \cup {<<DecStr(d)>> : d \in 0..(MaxSlots + 1)}

\* The runs of process_image_set.  Arguments a run never reads are varied less:
\* the cell stack layout does not read the slice size, so a few cell stack runs
\* only have a slice directive, and a run with copies < 1 or without a readable
\* template reads neither the layout arguments nor the items.
InitLayout ==
    /\ TokFresh
    /\ RunFresh
    /\ WalIdle
    /\ \/ \E src \in ItemSources, parity \in 0..MaxParity, copies \in 1..MaxCopies,
             slots \in 0..MaxSlots, directive \in SliceDirectives :
             /\ args = Args(src[1], src[2], parity, FALSE, copies)
             /\ file = TemplateFile(TRUE, TRUE, SlotTemplate(slots), directive)
       \/ \E src \in ItemSources, parity \in 0..MaxParity, copies \in 1..MaxCopies,
             slots \in 0..MaxSlots :
             /\ args = Args(src[1], src[2], parity, TRUE, copies)
             /\ file = TemplateFile(TRUE, TRUE, SlotTemplate(slots), <<>>)
       \/ \* cell stack runs over a template that declares a slice size
          \E counts \in {<<1>>, <<2, 1>>}, slots \in 0..MaxSlots,
             directive \in SliceDirectives \ {<<>>} :
             /\ args = Args(TRUE, counts, 2, TRUE, 1)
             /\ file = TemplateFile(TRUE, TRUE, SlotTemplate(slots), directive)
       \/ \E copies \in {-1, 0}, cell \in BOOLEAN :
             /\ args = Args(TRUE, <<1>>, 1, cell, copies)
             /\ file = TemplateFile(TRUE, TRUE, SlotTemplate(1), <<>>)
       \/ \E exists \in BOOLEAN, cell \in BOOLEAN :
             /\ args = Args(TRUE, <<1>>, 1, cell, 1)
             /\ file = TemplateFile(exists, FALSE, NoTree, <<>>)
       \/ \* the sequential example: 6 slots, slice size 1, one set of 7 items
          /\ args = Args(TRUE, <<7>>, 1, FALSE, 1)
          /\ file = TemplateFile(TRUE, TRUE, SlotTemplate(6), <<DecStr(1)>>)
       \/ \* the end-to-end example: sets of 3 and 5 items, 4 slots, slice size 1
          /\ args = Args(FALSE, <<3, 5>>, 1, FALSE, 1)
          /\ file = TemplateFile(TRUE, TRUE, SlotTemplate(4), <<DecStr(1)>>)

NextLayout ==
    \/ CollectItems
    \/ LoadTemplate
    \/ LayoutPages
    \/ Materialize
    \/ MainExit

SpecLayout == InitLayout /\ [][NextLayout]_vars

(***************************************************************************)
(* The image cache and its append-only log (cardmaker.py).                 *)
(* A path and an image reference are strings, a timestamp field of the log *)
(* is a sequence of characters, a timestamp in memory is an integer number *)
(* of milliseconds or NoneInt.                                             *)
(***************************************************************************)
MaxLog == 3
MaxImages == 2
MaxMtime == 2
MaxRuns == 2

\* wal_queue.put(None)
NoEntry == <<>>

EmptyDict == [p \in {} |-> <<>>]

\* d[k] = v
DictSet(d, k, v) == [p \in DOMAIN d \cup {k} |-> IF p = k THEN v ELSE d[p]]

IsDigits(s) == s # <<>> /\ \A i \in DOMAIN s : \E d \in DOMAIN Digits : Digits[d] = s[i]

\* float(s) accepts s: digits around one point, at least one digit
IsSeconds(s) ==
    /\ Cardinality({i \in DOMAIN s : s[i] = "."}) = 1
    /\ Len(s) > 1
    /\ \A i \in DOMAIN s : s[i] = "." \/ IsDigits(<<s[i]>>)

\* int(round(float(s) * 1000)) for a literal with at most three decimals
MillisOfSeconds(s) ==
    LET dot == CHOOSE i \in DOMAIN s : s[i] = "."
        decimals == SubSeq(s, dot + 1, Len(s))
        padded == decimals \o [k \in 1..(3 - Len(decimals)) |-> "0"]
    IN ParseInt(SubSeq(s, 1, dot - 1)) * 1000 + ParseInt(padded)

\* the timestamp of a log field: milliseconds, else legacy seconds, else None
parse_mtime(mtime_str) ==
    IF IsDigits(mtime_str) THEN ParseInt(mtime_str)
    ELSE IF IsSeconds(mtime_str) THEN MillisOfSeconds(mtime_str)
    ELSE NoneInt

\* a faulty variant: the first record of a path wins
RECURSIVE replay_rows_first_wins(_, _)
replay_rows_first_wins(c, rows) ==
    IF rows = <<>> THEN c
    ELSE LET row == Head(rows)
         IN IF Len(row) # 3 \/ row[1] = "" \/ row[1] \in DOMAIN c
            THEN replay_rows_first_wins(c, Tail(rows))
            ELSE replay_rows_first_wins(
                     DictSet(c, row[1], <<parse_mtime(row[2]), row[3]>>), Tail(rows))

\* the loop over the rows of the log
RECURSIVE replay_rows(_, _)
replay_rows(c, rows) ==
    IF rows = <<>> THEN c
    ELSE LET row == Head(rows)
         IN IF Len(row) # 3 THEN replay_rows(c, Tail(rows))
            ELSE IF row[1] = "" THEN replay_rows(c, Tail(rows))
            ELSE replay_rows(DictSet(c, row[1], <<parse_mtime(row[2]), row[3]>>),
                             Tail(rows))

\* cache_entry is not None and cached_mtime == mtime
cache_hit(c, path, mtime) == path \in DOMAIN c /\ c[path][1] = mtime

\* the row wal_writer_thread writes for an entry
wal_row(entry) ==
    <<entry[1], IF entry[2] = NoneInt THEN <<>> ELSE DecStr(entry[2]), entry[3]>>

WalFile(readable, rows) == [readable |-> readable, rows |-> rows]

SrcFile(mtime, image) == [mtime |-> mtime, image |-> image]

\* process_image raises for this file
Undecodable == ""

Future(img, idx) ==
    [pc |-> "mtime", file_path |-> img, idx |-> idx, mtime |-> NoneInt,
     hit |-> FALSE, data_url |-> "", collected |-> FALSE]

\* log_len records how many rows the log held when the run replayed it
MainThread(at, set, error, run) ==
    [pc |-> at, set |-> set, error |-> error, run |-> run, log_len |-> 0]

WriterThread(at, entry) == [pc |-> at, entry |-> entry]

\* everything process_image_sets and its threads leave alone
walFrame == <<file, tree, matched_groups, last, args, pc, set_lookup, tpl, all_slices,
              page_plans, stats, svg_pages, exit_code>>

AtMain(at) == main_thread # <<>> /\ main_thread.pc = at

AtWriter(at) == writer_thread # <<>> /\ writer_thread.pc = at

AtWorker(i, at) == i \in DOMAIN futures /\ futures[i].pc = at

MainGoto(at) == [main_thread EXCEPT !.pc = at]

\* a faulty variant: the results are kept in the order of completion
SortByIndex_completion_order(rs) == [k \in DOMAIN rs |-> rs[k][2]]

\* [r[1] for r in sorted(results, key=lambda x: x[0])]
SortByIndex(rs) ==
    LET order == SortedSeq({rs[k][1] : k \in DOMAIN rs})
    IN [k \in DOMAIN order |-> (CHOOSE r \in {rs[j] : j \in DOMAIN rs} : r[1] = order[k])[2]]

\* cache = get_image_cache_csv(cache_path): replay of the log, exit(1) when the
\* log cannot be read
GetImageCache ==
    /\ AtMain("load")
    /\ IF wal_file.readable
       THEN /\ cache' = replay_rows(EmptyDict, wal_file.rows)
            /\ main_thread' = [main_thread EXCEPT !.pc = "start_writer",
                                                  !.log_len = Len(wal_file.rows)]
       ELSE /\ main_thread' = MainGoto("exit_1")
            /\ UNCHANGED cache
    /\ UNCHANGED <<walFrame, processed_sets, wal_file, src_files, image_sets, wal_queue,
                   unfinished_tasks, stop_event, writer_thread, futures, results,
                   put_history>>

\* the queue, the stop event and the started writer thread
StartWriter ==
    /\ AtMain("start_writer")
    /\ wal_queue' = <<>>
    /\ unfinished_tasks' = 0
    /\ stop_event' = FALSE
    /\ writer_thread' = WriterThread("loop", NoEntry)
    /\ main_thread' = MainGoto("submit")
    /\ UNCHANGED <<walFrame, processed_sets, wal_file, src_files, image_sets, cache,
                   futures, results, put_history>>

\* one executor.submit per image of the next set; past the last set the
\* executor block is left
SubmitSet ==
    /\ AtMain("submit")
    /\ IF main_thread.set <= Len(image_sets)
       THEN LET images == image_sets[main_thread.set].images
            IN /\ futures' = [idx \in DOMAIN images |-> Future(images[idx], idx)]
               /\ results' = <<>>
               /\ main_thread' = MainGoto("collect")
       ELSE /\ main_thread' = MainGoto("shutdown")
            /\ UNCHANGED <<futures, results>>
    /\ UNCHANGED <<walFrame, processed_sets, wal_file, src_files, image_sets, cache,
                   wal_queue, unfinished_tasks, stop_event, writer_thread, put_history>>

\* get_normalized_mtime(image_path)
WorkerMtime(i) ==
    /\ AtWorker(i, "mtime")
    /\ futures' = [futures EXCEPT ![i].mtime = src_files[futures[i].file_path].mtime,
                                  ![i].pc = "lookup"]
    /\ UNCHANGED <<walFrame, processed_sets, wal_file, src_files, image_sets, cache,
                   wal_queue, unfinished_tasks, stop_event, writer_thread, results,
                   main_thread, put_history>>

\* cache.get(image_path) and the comparison of the timestamps
WorkerLookup(i) ==
    /\ AtWorker(i, "lookup")
    /\ IF cache_hit(cache, futures[i].file_path, futures[i].mtime)
       THEN futures' = [futures EXCEPT ![i].data_url = cache[futures[i].file_path][2],
                                       ![i].hit = TRUE,
                                       ![i].pc = "done"]
       ELSE futures' = [futures EXCEPT ![i].pc = "process"]
    /\ UNCHANGED <<walFrame, processed_sets, wal_file, src_files, image_sets, cache,
                   wal_queue, unfinished_tasks, stop_event, writer_thread, results,
                   main_thread, put_history>>

\* data_url = process_image(image_path), which raises for an unreadable image
WorkerProcess(i) ==
    /\ AtWorker(i, "process")
    /\ LET image == src_files[futures[i].file_path].image
       IN IF image = Undecodable
          THEN futures' = [futures EXCEPT ![i].pc = "raised"]
          ELSE futures' = [futures EXCEPT ![i].data_url = image, ![i].pc = "store"]
    /\ UNCHANGED <<walFrame, processed_sets, wal_file, src_files, image_sets, cache,
                   wal_queue, unfinished_tasks, stop_event, writer_thread, results,
                   main_thread, put_history>>

\* cache[image_path] = (mtime, data_url)
WorkerStore(i) ==
    /\ AtWorker(i, "store")
    /\ cache' = DictSet(cache, futures[i].file_path, <<futures[i].mtime, futures[i].data_url>>)
    /\ futures' = [futures EXCEPT ![i].pc = "put"]
    /\ UNCHANGED <<walFrame, processed_sets, wal_file, src_files, image_sets, wal_queue,
                   unfinished_tasks, stop_event, writer_thread, results, main_thread,
                   put_history>>

\* wal_queue.put((image_path, mtime, data_url)) and the return of the worker
WorkerPut(i) ==
    /\ AtWorker(i, "put")
    /\ LET entry == <<futures[i].file_path, futures[i].mtime, futures[i].data_url>>
       IN /\ wal_queue' = Append(wal_queue, entry)
          /\ put_history' = Append(put_history, entry)
    /\ unfinished_tasks' = unfinished_tasks + 1
    /\ futures' = [futures EXCEPT ![i].pc = "done"]
    /\ UNCHANGED <<walFrame, processed_sets, wal_file, src_files, image_sets, cache,
                   stop_event, writer_thread, results, main_thread>>

\* as_completed yields a finished future; future.result() returns the item or
\* raises what the worker raised
CollectResult ==
    /\ AtMain("collect")
    /\ \E i \in DOMAIN futures :
          /\ ~futures[i].collected
          /\ futures[i].pc \in {"done", "raised"}
          /\ futures' = [futures EXCEPT ![i].collected = TRUE]
          /\ IF futures[i].pc = "raised"
             THEN /\ main_thread' = [main_thread EXCEPT !.pc = "shutdown", !.error = TRUE]
                  /\ UNCHANGED results
             ELSE /\ results' = Append(results,
                                       <<futures[i].idx - 1,
                                         [label |-> futures[i].file_path,
                                          image |-> futures[i].data_url,
                                          original_name |-> futures[i].file_path]>>)
                  /\ UNCHANGED main_thread
    /\ UNCHANGED <<walFrame, processed_sets, wal_file, src_files, image_sets, cache,
                   wal_queue, unfinished_tasks, stop_event, writer_thread, put_history>>

\* processed_sets[set_name] = the results sorted by index
FinishSet ==
    /\ AtMain("collect")
    /\ \A i \in DOMAIN futures : futures[i].collected
    /\ processed_sets' = Append(processed_sets,
                                [name |-> image_sets[main_thread.set].name,
                                 items |-> SortByIndex(results)])
    /\ main_thread' = [main_thread EXCEPT !.pc = "submit", !.set = @ + 1]
    /\ UNCHANGED <<walFrame, wal_file, src_files, image_sets, cache, wal_queue,
                   unfinished_tasks, stop_event, writer_thread, futures, results,
                   put_history>>

\* the end of the executor block waits for every submitted call; then comes
\* wal_queue.join(), unless an exception is on its way to the finally block
ExecutorExit ==
    /\ AtMain("shutdown")
    /\ \A i \in DOMAIN futures : futures[i].pc \in {"done", "raised"}
    /\ main_thread' = MainGoto(IF main_thread.error THEN "finally_set" ELSE "join")
    /\ UNCHANGED <<walFrame, processed_sets, wal_file, src_files, image_sets, cache,
                   wal_queue, unfinished_tasks, stop_event, writer_thread, futures,
                   results, put_history>>

\* wal_queue.join() returns once every entry put has been marked done
QueueJoin ==
    /\ AtMain("join")
    /\ unfinished_tasks = 0
    /\ main_thread' = MainGoto("finally_set")
    /\ UNCHANGED <<walFrame, processed_sets, wal_file, src_files, image_sets, cache,
                   wal_queue, unfinished_tasks, stop_event, writer_thread, futures,
                   results, put_history>>

\* stop_event.set()
FinallySetStop ==
    /\ AtMain("finally_set")
    /\ stop_event' = TRUE
    /\ main_thread' = MainGoto("finally_put")
    /\ UNCHANGED <<walFrame, processed_sets, wal_file, src_files, image_sets, cache,
                   wal_queue, unfinished_tasks, writer_thread, futures, results,
                   put_history>>

\* wal_queue.put(None)
FinallyPutNone ==
    /\ AtMain("finally_put")
    /\ wal_queue' = Append(wal_queue, NoEntry)
    /\ unfinished_tasks' = unfinished_tasks + 1
    /\ main_thread' = MainGoto("finally_join")
    /\ UNCHANGED <<walFrame, processed_sets, wal_file, src_files, image_sets, cache,
                   stop_event, writer_thread, futures, results, put_history>>

\* writer_thread.join(), then the return or the pending exception
FinallyJoinWriter ==
    /\ AtMain("finally_join")
    /\ AtWriter("exited")
    /\ main_thread' = MainGoto(IF main_thread.error THEN "raised" ELSE "returned")
    /\ UNCHANGED <<walFrame, processed_sets, wal_file, src_files, image_sets, cache,
                   wal_queue, unfinished_tasks, stop_event, writer_thread, futures,
                   results, put_history>>

\* while not stop_event.is_set() ...
WriterLoop ==
    /\ AtWriter("loop")
    /\ writer_thread' = [writer_thread EXCEPT !.pc = IF stop_event THEN "empty" ELSE "get"]
    /\ UNCHANGED <<walFrame, processed_sets, wal_file, src_files, image_sets, cache,
                   wal_queue, unfinished_tasks, stop_event, futures, results,
                   main_thread, put_history>>

\* a faulty variant: the writer stops as soon as the stop event is set
WriterCheckEmpty_ignores_the_queue ==
    /\ AtWriter("empty")
    /\ writer_thread' = [writer_thread EXCEPT !.pc = "exited"]
    /\ UNCHANGED <<walFrame, processed_sets, wal_file, src_files, image_sets, cache,
                   wal_queue, unfinished_tasks, stop_event, futures, results,
                   main_thread, put_history>>

\* ... or not wal_queue.empty()
WriterCheckEmpty ==
    /\ AtWriter("empty")
    /\ writer_thread' = [writer_thread EXCEPT !.pc = IF wal_queue = <<>> THEN "exited" ELSE "get"]
    /\ UNCHANGED <<walFrame, processed_sets, wal_file, src_files, image_sets, cache,
                   wal_queue, unfinished_tasks, stop_event, futures, results,
                   main_thread, put_history>>

\* entry = wal_queue.get(timeout=0.1): the oldest entry, queue.Empty after the
\* timeout; the None entry ends the loop
WriterGet ==
    /\ AtWriter("get")
    /\ IF wal_queue = <<>>
       THEN /\ writer_thread' = [writer_thread EXCEPT !.pc = "loop"]
            /\ UNCHANGED wal_queue
       ELSE /\ wal_queue' = Tail(wal_queue)
            /\ writer_thread' = WriterThread(IF Head(wal_queue) = NoEntry THEN "exited"
                                                                         ELSE "write",
                                             Head(wal_queue))
    /\ UNCHANGED <<walFrame, processed_sets, wal_file, src_files, image_sets, cache,
                   unfinished_tasks, stop_event, futures, results, main_thread,
                   put_history>>

\* csv_writer.writerow(...) and f.flush()
WriterWrite ==
    /\ AtWriter("write")
    /\ wal_file' = [wal_file EXCEPT !.rows = Append(@, wal_row(writer_thread.entry))]
    /\ writer_thread' = [writer_thread EXCEPT !.pc = "task_done"]
    /\ UNCHANGED <<walFrame, processed_sets, src_files, image_sets, cache, wal_queue,
                   unfinished_tasks, stop_event, futures, results, main_thread,
                   put_history>>

\* wal_queue.task_done()
WriterTaskDone ==
    /\ AtWriter("task_done")
    /\ unfinished_tasks' = unfinished_tasks - 1
    /\ writer_thread' = WriterThread("loop", NoEntry)
    /\ UNCHANGED <<walFrame, processed_sets, wal_file, src_files, image_sets, cache,
                   wal_queue, stop_event, futures, results, main_thread, put_history>>

\* the next run of the program over the same sets and the log the earlier runs
\* left, after the timestamp of at most one source file has changed
NextRun ==
    /\ main_thread # <<>>
    /\ main_thread.pc \in {"returned", "raised"}
    /\ main_thread.run < MaxRuns
    /\ \/ UNCHANGED src_files
       \/ \E p \in DOMAIN src_files, t \in (1..MaxMtime) \cup {NoneInt} :
             /\ t # src_files[p].mtime
             /\ src_files' = [src_files EXCEPT ![p].mtime = t]
    /\ processed_sets' = <<>>
    /\ cache' = EmptyDict
    /\ wal_queue' = <<>>
    /\ unfinished_tasks' = 0
    /\ stop_event' = FALSE
    /\ writer_thread' = <<>>
    /\ futures' = <<>>
    /\ results' = <<>>
    /\ put_history' = <<>>
    /\ main_thread' = MainThread("load", 1, FALSE, main_thread.run + 1)
    /\ UNCHANGED <<walFrame, wal_file, image_sets>>

NextWal ==
    \/ GetImageCache
    \/ StartWriter
    \/ SubmitSet
    \/ \E i \in 1..MaxImages : WorkerMtime(i)
    \/ \E i \in 1..MaxImages : WorkerLookup(i)
    \/ \E i \in 1..MaxImages : WorkerProcess(i)
    \/ \E i \in 1..MaxImages : WorkerStore(i)
    \/ \E i \in 1..MaxImages : WorkerPut(i)
    \/ CollectResult
    \/ FinishSet
    \/ ExecutorExit
    \/ QueueJoin
    \/ FinallySetStop
    \/ FinallyPutNone
    \/ FinallyJoinWriter
    \/ WriterLoop
    \/ WriterCheckEmpty
    \/ WriterGet
    \/ WriterWrite
    \/ WriterTaskDone
    \/ NextRun

\* process_image_sets has been called and nothing has run yet
WalFresh ==
    /\ processed_sets = <<>>
    /\ cache = EmptyDict
    /\ wal_queue = <<>>
    /\ unfinished_tasks = 0
    /\ stop_event = FALSE
    /\ writer_thread = <<>>
    /\ futures = <<>>
    /\ results = <<>>
    /\ put_history = <<>>
    /\ main_thread = MainThread("load", 1, FALSE, 1)

\* everything outside process_image_sets is at rest
OutsideWal ==
    /\ file = TemplateFile(FALSE, FALSE, NoTree, <<>>)
    /\ TokFresh
    /\ args = <<>>
    /\ pc = "idle"
    /\ set_lookup = <<>>
    /\ tpl = <<>>
    /\ all_slices = <<>>
    /\ page_plans = <<>>
    /\ stats = <<>>
    /\ svg_pages = 0
    /\ exit_code = -1

\* the timestamp fields of the log: milliseconds, empty, legacy seconds, garbage
MtimeFields ==
    {DecStr(t) : t \in 1..MaxMtime} \cup {<<>>, <<"0", ".", "0", "0", "1">>, <<"x">>}

\* the records of the log: three fields, with an empty path, and of another arity
LogRows ==
    {<<"a", f, u>> : f \in MtimeFields, u \in {"u0", "u1"}}
    \cup {<<"b", DecStr(1), "u0">>, <<"", DecStr(1), "u0">>}
    \cup {<<>>, <<"a", DecStr(1)>>, <<"a", DecStr(1), "u1", "u0">>}

Logs == UNION {[1..n -> LogRows] : n \in 0..MaxLog}

\* the sets of discovered images: one or two sets over the files a and b
ImageSets ==
    {<<[name |-> 1, images |-> <<"a">>]>>,
     <<[name |-> 1, images |-> <<"a", "b">>]>>,
     <<[name |-> 1, images |-> <<"a">>], [name |-> 2, images |-> <<"b">>]>>}

\* reloads of every small log, and runs over a few logs and every state of file a
InitCache ==
    /\ OutsideWal
    /\ WalFresh
    /\ \/ /\ image_sets = <<>>
          /\ src_files = <<>>
          /\ \E rows \in Logs : wal_file = WalFile(TRUE, rows)
       \/ /\ image_sets \in ImageSets
          /\ \E ta \in (1..MaxMtime) \cup {NoneInt}, ia \in {"u1", Undecodable} :
                src_files = [p \in {"a", "b"} |->
                               IF p = "a" THEN SrcFile(ta, ia) ELSE SrcFile(1, "u2")]
          /\ \/ wal_file = WalFile(FALSE, <<>>)
             \/ \E f \in MtimeFields : wal_file = WalFile(TRUE, <<<<"a", f, "u0">>>>)
             \/ wal_file = WalFile(TRUE, <<>>)

SpecCache == InitCache /\ [][NextWal]_vars

\* runs over an empty or one-record log where either file may fail to decode
InitWal ==
    /\ OutsideWal
    /\ WalFresh
    /\ image_sets \in ImageSets
    /\ \E ta \in {1, NoneInt}, ia \in {"u1", Undecodable}, ib \in {"u2", Undecodable} :
          src_files = [p \in {"a", "b"} |->
                         IF p = "a" THEN SrcFile(ta, ia) ELSE SrcFile(1, ib)]
    /\ \/ wal_file = WalFile(TRUE, <<>>)
       \/ wal_file = WalFile(TRUE, <<<<"a", DecStr(1), "u0">>>>)

\* every thread that can take a step eventually takes one
WalFairness ==
    /\ WF_vars(GetImageCache \/ StartWriter \/ SubmitSet \/ CollectResult \/ FinishSet
               \/ ExecutorExit \/ QueueJoin \/ FinallySetStop \/ FinallyPutNone
               \/ FinallyJoinWriter)
    /\ WF_vars(WriterLoop \/ WriterCheckEmpty \/ WriterGet \/ WriterWrite \/ WriterTaskDone)
    /\ \A i \in 1..MaxImages :
          WF_vars(WorkerMtime(i) \/ WorkerLookup(i) \/ WorkerProcess(i)
                  \/ WorkerStore(i) \/ WorkerPut(i))

SpecWal == InitWal /\ [][NextWal]_vars /\ WalFairness

(***************************************************************************)
(* Properties of the tokenizer.                                            *)
(***************************************************************************)
Parsed == last.op = "parse_and_tokenize" /\ last.ret

\* the direct children of node n carrying exactly the tag
KidsWithTag(t, n, tag) == {c \in DOMAIN t : t[c].parent = n /\ t[c].tag = tag}

\* the eligibility predicate in the words of the specification
SpecEligible(t, n) ==
    /\ KidsWithTag(t, n, TagG) = {}
    /\ \E c \in KidsWithTag(t, n, TagText) : Contains(Lower(IterText(t, c)), Marker)
    /\ KidsWithTag(t, n, TagImage) # {}

DiscoveredElements == [k \in DOMAIN matched_groups |-> matched_groups[k].element]

LabelTokens(group) ==
    {i \in DOMAIN group.tokens :
        /\ group.tokens[i].type = "label"
        /\ contains_target_identifier(group.tokens[i].content)}

ImageTokens(group) == {i \in DOMAIN group.tokens : group.tokens[i].type = "image"}

AllTokens ==
    UNION {{<<g, i>> : i \in DOMAIN matched_groups[g].tokens} : g \in DOMAIN matched_groups}

\* C1: a <g> element with a direct <g> child is never among the discovered slots,
\* whatever else its children are.
C1_NestedGroupNeverDiscovered ==
    \A k \in DOMAIN matched_groups :
        KidsWithTag(tree, matched_groups[k].element, TagG) = {}

\* a parsed document holding a <g> with a <g> child, a marked text and an image
C1_Witness ==
    /\ Parsed
    /\ \E n \in DOMAIN tree :
        /\ tree[n].tag = TagG
        /\ KidsWithTag(tree, n, TagG) # {}
        /\ \E c \in KidsWithTag(tree, n, TagText) : Contains(Lower(IterText(tree, c)), Marker)
        /\ KidsWithTag(tree, n, TagImage) # {}

\* C2: after parsing, the discovered slots are exactly the eligible <g> nodes of
\* the whole tree in pre-order (increasing node id), the i-th having position i.
C2_DiscoversEveryEligibleGroup ==
    Parsed =>
        /\ DiscoveredElements
             = SortedSeq({n \in DOMAIN tree : tree[n].tag = TagG /\ SpecEligible(tree, n)})
        /\ \A k \in DOMAIN matched_groups : matched_groups[k].position = k - 1

\* C3 as claimed: every discovered slot has exactly one marked Label token and at
\* least one Image token.
C3_ExactlyOneLabel ==
    \A k \in DOMAIN matched_groups :
        /\ Cardinality(LabelTokens(matched_groups[k])) = 1
        /\ ImageTokens(matched_groups[k]) # {}

\* C3 amended: every discovered slot has at least one Label token, every Label
\* token's content contains the marker, and it has at least one Image token.
C3_AtLeastOneLabel ==
    \A k \in DOMAIN matched_groups :
        /\ LabelTokens(matched_groups[k]) # {}
        /\ \A i \in DOMAIN matched_groups[k].tokens :
              matched_groups[k].tokens[i].type = "label" => i \in LabelTokens(matched_groups[k])
        /\ ImageTokens(matched_groups[k]) # {}

\* a discovered slot with two marked labels and an image
C3_Witness ==
    /\ Parsed
    /\ \E k \in DOMAIN matched_groups :
        /\ Cardinality(LabelTokens(matched_groups[k])) = 2
        /\ ImageTokens(matched_groups[k]) # {}

\* C4: right after reset_modifications every token's content is its original
\* content and no token counts as modified.
C4_ResetRestoresAll ==
    last.op = "reset_modifications" =>
        /\ \A p \in AllTokens :
              matched_groups[p[1]].tokens[p[2]].content
                 = matched_groups[p[1]].tokens[p[2]].original_content
        /\ modified_tokens(matched_groups) = 0

\* a reset that found a label, an image and an other token modified
C4_Witness ==
    /\ last.op = "reset_modifications"
    /\ last.modified >= 3
    /\ \E p \in AllTokens : matched_groups[p[1]].tokens[p[2]].type = "other"

ModifyOps == {"modify_token", "modify_group_labels", "modify_group_images",
              "reset_modifications"}

\* C5: no modify or reset step changes a token's original_content, tokenization
\* sets it to the content, and modify_token(token, c) leaves content = c when it
\* returns True and the old content when it returns False.
C5_OriginalContentFixed ==
    [][ /\ last'.op \in ModifyOps =>
            /\ DOMAIN matched_groups' = DOMAIN matched_groups
            /\ \A p \in AllTokens :
                  matched_groups'[p[1]].tokens[p[2]].original_content
                     = matched_groups[p[1]].tokens[p[2]].original_content
        /\ (last'.op = "parse_and_tokenize" /\ last'.ret) =>
            \A g \in DOMAIN matched_groups' : \A i \in DOMAIN matched_groups'[g].tokens :
                matched_groups'[g].tokens[i].original_content
                   = matched_groups'[g].tokens[i].content
        /\ last'.op = "modify_token" =>
            matched_groups'[last'.group].tokens[last'.token].content
               = IF last'.ret THEN last'.content
                 ELSE matched_groups[last'.group].tokens[last'.token].content
      ]_vars

\* a token whose content was replaced and differs from its original content
C5_Witness ==
    /\ last.op = "modify_token"
    /\ last.ret
    /\ matched_groups[last.group].tokens[last.token].content = last.content
    /\ matched_groups[last.group].tokens[last.token].original_content # last.content

\* the attribute value the specification promises after a label modification
NormalizedValue(k, v) ==
    IF k = Style /\ Contains(v, Teal) THEN Replace(v, Teal, Black) ELSE v

\* C6: modify_token on a Label token whose text node has a tspan child keeps every
\* attribute of the text node and of that tspan with its value, or, for a style
\* attribute holding the placeholder colour, with that colour replaced by the
\* normalized colour.
C6_LabelAttributesPreserved ==
    [][ last'.op = "modify_token" =>
          LET token == matched_groups[last'.group].tokens[last'.token]
              tspans == KidsWithTag(tree, token.element, TagTspan)
          IN (token.type = "label" /\ tspans # {}) =>
                \A n \in {token.element} \cup {CHOOSE c \in tspans : \A d \in tspans : c <= d} :
                    \A p \in tree[n].attrib :
                        \/ p \in tree'[n].attrib
                        \/ <<p[1], NormalizedValue(p[1], p[2])>> \in tree'[n].attrib
      ]_vars

\* C7: modify_token on an Image token writes the new content to the xlink href
\* when the node has one and to the plain href otherwise, touches no other
\* attribute, and the href tokenization extracts afterwards is the new content.
C7_ImageHrefWritten ==
    [][ last'.op = "modify_token" =>
          LET token == matched_groups[last'.group].tokens[last'.token]
              before == tree[token.element].attrib
              after == tree'[token.element].attrib
              target == IF AttrHas(before, XlinkHref) THEN XlinkHref ELSE Href
          IN token.type = "image" =>
                /\ <<target, last'.content>> \in after
                /\ {p \in after : p[1] # target} = {p \in before : p[1] # target}
                /\ Cardinality(after) = Cardinality(AttrKeys(after))
                /\ extract_image_href(tree', token.element) = last'.content
      ]_vars

\* an image node with both hrefs whose xlink href was rewritten
C7_Witness ==
    /\ last.op = "modify_token"
    /\ LET token == matched_groups[last.group].tokens[last.token]
       IN /\ token.type = "image"
          /\ token.content # token.original_content
          /\ AttrHas(tree[token.element].attrib, Href)
          /\ AttrGet(tree[token.element].attrib, XlinkHref, <<"?">>) = token.content

(***************************************************************************)
(* Properties of the layout engine.                                        *)
(***************************************************************************)
\* the layout step of the run has returned page plans (possibly none at all)
Planned == ~page_plans.none

\* the template has been read, so the run has reached the layout step or passed it
TemplateLoaded == tpl.slots_per_page # NoneInt

LayoutDone == TemplateLoaded /\ pc \notin {"start", "items", "template"}

Finished == pc \in {"exited", "exited_by_exception"}

\* the items of row r (1-based) of a page plan in the slice layouts
RowItems(plan, r) == SubSeq(plan.items, (r - 1) * tpl.slice_size + 1, r * tpl.slice_size)

\* a row made of placeholder cards only, owned by no set
PlaceholderRow(items) ==
    \A j \in DOMAIN items :
        /\ items[j].meta.placeholder
        /\ items[j].label = <<>>
        /\ items[j].image = ONEPIXEL
        /\ items[j].meta.set = NoneInt

\* the smallest number of pages of n rows that hold s slices
PagesNeeded(s, n) == CHOOSE p \in 0..s : p * n >= s /\ (p = 0 \/ (p - 1) * n < s)

\* C8: in the sequential layout (stack count <= 1) of S slices with
\* slicesPerPage = slotsPerPage div sliceSize >= 1, exactly ceil(S / slicesPerPage)
\* pages are planned, row r of page p holds slice (p-1)*slicesPerPage + r of the
\* stream, rows past the end of the stream are placeholder rows and lie on the
\* final page only; 6 slots, slice size 1 and one set of 7 items give 2 pages, the
\* second holding the 7th item followed by 5 placeholders.
C8_SequentialLayout ==
    (Planned /\ ~args.cell_stack_mode /\ args.parity <= 1) =>
        LET slices_per_page == tpl.slots_per_page \div tpl.slice_size
            S == Len(all_slices)
            plans == page_plans.plans
        IN /\ slices_per_page >= 1
           /\ Len(plans) = PagesNeeded(S, slices_per_page)
           /\ \A pg \in DOMAIN plans :
                /\ Len(plans[pg].items) = slices_per_page * tpl.slice_size
                /\ Len(plans[pg].sets) = slices_per_page
                /\ \A r \in 1..slices_per_page :
                     LET k == (pg - 1) * slices_per_page + r
                     IN IF k <= S
                        THEN /\ RowItems(plans[pg], r) = all_slices[k].items
                             /\ plans[pg].sets[r] = all_slices[k].set
                             /\ ~PlaceholderRow(all_slices[k].items)
                        ELSE /\ pg = Len(plans)
                             /\ PlaceholderRow(RowItems(plans[pg], r))
                             /\ plans[pg].sets[r] = NoneInt
           /\ (/\ args.testmode /\ args.counts = <<7>> /\ args.copies = 1
               /\ tpl.slots_per_page = 6 /\ tpl.slice_size = 1)
              => /\ Len(plans) = 2
                 /\ Len(plans[2].items) = 6
                 /\ plans[2].items[1].label = <<"s", "1", "c", "7">>
                 /\ ~plans[2].items[1].meta.placeholder
                 /\ \A j \in 2..6 : plans[2].items[j].meta.placeholder

\* the sequential example has been planned: two pages, the second padded
C8_Witness ==
    /\ pc = "planned"
    /\ ~args.cell_stack_mode /\ args.parity <= 1
    /\ args.counts = <<7>> /\ tpl.slots_per_page = 6 /\ tpl.slice_size = 1
    /\ Len(page_plans.plans) = 2
    /\ page_plans.plans[2].items[6].meta.placeholder

\* the divisibility requirement of the requested stacked layout is violated
DivisibilityViolated ==
    /\ args.parity > 1
    /\ IF args.cell_stack_mode
       THEN tpl.slots_per_page % args.parity # 0
       ELSE /\ tpl.slice_size # 0
            /\ (tpl.slots_per_page \div tpl.slice_size) % args.parity # 0

\* C9: when a stacked layout is requested with stack count P > 1 and the
\* divisibility requirement is violated (parity-striped: slots per slice % P # 0,
\* cell-stacked: slots per page % P # 0), the layout step returns no page plans,
\* the run ends with status "error" and a geometry message, and no page is written.
C9_DivisibilityViolationFails ==
    (LayoutDone /\ DivisibilityViolated) =>
        /\ page_plans.none
        /\ page_plans.plans = <<>>
        /\ stats.status = "error"
        /\ stats.error = (IF args.cell_stack_mode THEN ErrSlotsCellStack ELSE ErrRowsParity)
        /\ svg_pages = 0
        /\ pc \in {"returned", "exited"}
        /\ pc = "exited" => exit_code = 1

\* a run that asked for two stacks over a template whose rows do not split in two
\* has ended
C9_Witness ==
    /\ pc = "exited"
    /\ DivisibilityViolated
    /\ stats.error \in {ErrRowsParity, ErrSlotsCellStack}

\* the geometry the stacked layouts require is missing: more stacks than slots,
\* a slice size of zero, a cell count of zero, or a template without slots
GeometryViolated ==
    \/ args.parity > 1 /\ args.parity > tpl.slots_per_page
    \/ ~args.cell_stack_mode /\ tpl.slice_size = 0
    \/ args.cell_stack_mode /\ args.parity > 1 /\ tpl.slots_per_page \div args.parity = 0
    \/ tpl.slots_per_page = 0

\* C10: every run whose stack count exceeds the slots per page, or whose slice size
\* or cell count is zero (a (slice=0) directive, a template with no slots), ends
\* with a reported layout error (status "error"), never with an unreported failure
\* and never with pages.
C10_GeometryErrorReported ==
    (Finished /\ TemplateLoaded /\ GeometryViolated) =>
        /\ pc = "exited"
        /\ stats.status = "error"
        /\ svg_pages = 0

\* the item source of the run, before copies: the synthetic or the discovered sets
SourceSets ==
    IF args.testmode THEN generate_test_sets(args.counts, ONEPIXEL)
    ELSE process_image_sets(args.counts)

\* step 1 of the run has produced annotated sets
ItemsCollected == pc # "start" /\ set_lookup # <<>>

\* C11: for copies = c >= 1 every source item of every set becomes, before slicing,
\* exactly c consecutive items with its label and image, copy_index 0, 1, ..., c-1
\* in that order, card_index the source item's index in its set, placeholder false.
C11_CopiesExpandEachItem ==
    ItemsCollected =>
        /\ args.copies >= 1
        /\ Len(processed_sets) = Len(SourceSets)
        /\ \A k \in DOMAIN processed_sets :
             LET src == SourceSets[k].items
                 out == processed_sets[k].items
             IN /\ Len(out) = args.copies * Len(src)
                /\ \A j \in DOMAIN src : \A i \in 0..(args.copies - 1) :
                     LET item == out[(j - 1) * args.copies + i + 1]
                     IN /\ item.label = src[j].label
                        /\ item.image = src[j].image
                        /\ item.meta.copy_index = i
                        /\ item.meta.card_index = j - 1
                        /\ item.meta.copies = args.copies
                        /\ ~item.meta.placeholder

\* a set of two source items has been expanded with two copies each
C11_Witness ==
    /\ pc = "items"
    /\ args.copies = 2
    /\ \E k \in DOMAIN processed_sets :
         /\ Len(SourceSets[k].items) = 2
         /\ Len(processed_sets[k].items) = 4
         /\ processed_sets[k].items[3].meta.card_index = 1

\* the (page, slot) positions the page plans fill, slots counted from 1
PlanPositions ==
    UNION {{<<pg, j>> : j \in DOMAIN page_plans.plans[pg].items} : pg \in DOMAIN page_plans.plans}

PlanItem(p) == page_plans.plans[p[1]].items[p[2]]

RealPositions == {p \in PlanPositions : ~PlanItem(p).meta.placeholder}

C13_SpaceRecordPerSlot ==
    Planned =>
        \A pg \in DOMAIN page_plans.plans :
            LET plan == page_plans.plans[pg]
            IN /\ Len(plan.space) = tpl.slots_per_page
               /\ Len(plan.items) = tpl.slots_per_page
               /\ \A i \in DOMAIN plan.space :
                    /\ plan.space[i].slot = i - 1
                    /\ plan.space[i].set = plan.items[i].meta.set
                    /\ plan.space[i].card_index = plan.items[i].meta.card_index
                    /\ plan.space[i].copy_index = plan.items[i].meta.copy_index
                    /\ plan.space[i].placeholder = plan.items[i].meta.placeholder

\* the annotated items of the run, as (set, item) positions
RealItems ==
    UNION {{<<k, j>> : j \in DOMAIN processed_sets[k].items} : k \in DOMAIN processed_sets}

\* C14: whenever the layout step yields page plans, every real item of every set
\* (each copy counted separately) occupies exactly one (page, slot) position over
\* all page plans, and the slice layout never raises its RuntimeError.
C14_EveryItemPlacedOnce ==
    /\ Planned =>
         \A r \in RealItems :
            Cardinality({p \in PlanPositions :
                            PlanItem(p) = processed_sets[r[1]].items[r[2]]}) = 1
    /\ (pc = "template" /\ ~args.cell_stack_mode /\ tpl.slice_size # 0) =>
         group_slices_into_pages(
             collect_all_slices(processed_sets, tpl.slice_size, ONEPIXEL, set_lookup),
             tpl.slots_per_page, tpl.slice_size, ONEPIXEL, args.parity,
             set_lookup).outcome # "RuntimeError"

\* a parity-striped plan of two pages or more that holds three real items or more
C14_Witness ==
    /\ pc = "planned"
    /\ args.parity > 1 /\ ~args.cell_stack_mode
    /\ Len(page_plans.plans) >= 2
    /\ Cardinality(RealItems) >= 3
    /\ Cardinality(RealPositions) >= 3

\* the page plans the layout of the run makes of the given annotated sets
LayoutOf(sets) ==
    IF args.cell_stack_mode
    THEN build_cell_stack_page_plans(sets, tpl.slots_per_page, args.parity, ONEPIXEL, set_lookup)
    ELSE group_slices_into_pages(
             collect_all_slices(sets, tpl.slice_size, ONEPIXEL, set_lookup),
             tpl.slots_per_page, tpl.slice_size, ONEPIXEL, args.parity, set_lookup)

\* what each slot of each page shows: the label, and whether it is padding
Footprint(plans) ==
    [pg \in DOMAIN plans |->
        [j \in DOMAIN plans[pg].items |->
            <<plans[pg].items[j].label, plans[pg].items[j].meta.placeholder>>]]

\* C15: a set with zero items is dropped from the layout under every policy: no
\* slot holds an item or a placeholder attributed to it, no row or cell column is
\* its own, and the other sets are placed as if it had not been in the input.
C15_EmptySetDropped ==
    Planned =>
        /\ \A k \in DOMAIN processed_sets :
              processed_sets[k].items = <<>> =>
                 /\ \A p \in PlanPositions : PlanItem(p).meta.set # processed_sets[k].name
                 /\ \A pg \in DOMAIN page_plans.plans :
                       \A r \in DOMAIN page_plans.plans[pg].sets :
                          page_plans.plans[pg].sets[r] # processed_sets[k].name
        /\ Footprint(page_plans.plans)
             = Footprint(LayoutOf(SelectSeq(processed_sets, LAMBDA s : s.items # <<>>)).plans)

\* the template declares a slice size greater than its number of slots
SliceExceedsSlots == file.directive # <<>> /\ tpl.slice_size > tpl.slots_per_page

\* C16: for every run, under every layout policy, a template whose declared slice
\* size is greater than its discovered slots per page ends the run with status
\* "error" and no page is produced.
C16_OversizedSliceIsFatal ==
    (Finished /\ TemplateLoaded /\ SliceExceedsSlots) =>
        /\ stats.status = "error"
        /\ svg_pages = 0
        /\ exit_code = 1

\* the item source holds no real item: no sets, or sets without items only
NoRealItem == \A k \in DOMAIN SourceSets : SourceSets[k].items = <<>>

\* C17: a run whose item source contains no real item never ends with status "ok":
\* it ends with status "error" and with no page written, under every layout policy.
C17_EmptySourceIsAnError ==
    (Finished /\ NoRealItem) =>
        /\ pc = "exited"
        /\ stats.status = "error"
        /\ svg_pages = 0
        /\ exit_code = 1

(***************************************************************************)
(* Properties of the image cache and its log.                              *)
(***************************************************************************)
\* the cache holds a timestamp for the path that equals the readable current one
TimestampsMatch(c, path, mtime) ==
    /\ mtime # NoneInt
    /\ path \in DOMAIN c
    /\ c[path][1] = mtime

\* C18: a lookup returns the stored image reference without reprocessing exactly
\* when the stored timestamp equals the current readable timestamp of the path;
\* a mismatch or an unreadable current timestamp (also with an unknown stored
\* timestamp) is a miss, and a miss reprocesses the source
C18_HitIffTimestampsMatch ==
    [][\A i \in 1..MaxImages :
          WorkerLookup(i) =>
             LET path == futures[i].file_path
             IN IF TimestampsMatch(cache, path, futures[i].mtime)
                THEN /\ futures'[i].pc = "done"
                     /\ futures'[i].data_url = cache[path][2]
                ELSE futures'[i].pc = "process"]_vars

\* the log has been replayed and no worker of this run has stored anything yet
Reloaded == AtMain("start_writer")

\* the positions of the 3-field records of the log for a path
RecordsOf(path) ==
    {k \in DOMAIN wal_file.rows : Len(wal_file.rows[k]) = 3 /\ wal_file.rows[k][1] = path}

\* the paths of the 3-field records of the log
LoggedPaths == {wal_file.rows[k][1] : k \in {j \in DOMAIN wal_file.rows : Len(wal_file.rows[j]) = 3}}

\* the cache holds for the path what its last 3-field record says
HoldsLastRecord(path) ==
    /\ path \in DOMAIN cache
    /\ LET last_row == wal_file.rows[CHOOSE k \in RecordsOf(path) : \A j \in RecordsOf(path) : j <= k]
       IN cache[path] = <<parse_mtime(last_row[2]), last_row[3]>>

SetsFinished == AtMain("returned") \/ AtMain("raised")

\* the rows the log has gained since this run replayed it
AppendedRows == SubSeq(wal_file.rows, main_thread.log_len + 1, Len(wal_file.rows))

\* the writer has exited and the log has gained the row of every entry put, once
\* each and in the order of the puts
Drained ==
    /\ AtWriter("exited")
    /\ AppendedRows = [k \in DOMAIN put_history |-> wal_row(put_history[k])]

\* the main thread waits at one of the two barriers, wal_queue.join() or
\* writer_thread.join()
AtBarrier == AtMain("join") \/ AtMain("finally_join")

\* C20: in every interleaving, when process_image_sets has returned or raised,
\* the writer thread has exited and every entry a worker put is in the log
\* exactly once in the order of the puts; and a main thread waiting at a barrier
\* always gets past it and finishes
C20_DrainedWhenFinished ==
    /\ [](SetsFinished => Drained)
    /\ (AtBarrier ~> SetsFinished)

\* a run that let a worker's exception through, so that wal_queue.join() was
\* skipped, after another worker had put an entry
C20_Witness ==
    /\ AtMain("raised")
    /\ Len(put_history) >= 1
    /\ Drained

(***************************************************************************)
(* Properties of the run outcome, the item order and the page geometry.    *)
(***************************************************************************)
\* C21: every run of process_image_set, whatever the template, the slot count,
\* the slice size and the items, ends with the status 'ok' or 'error' in the
\* outcome record, and the exit code of the process is non-zero exactly when the
\* status is not 'ok'
C21_TerminalStatus ==
    Finished => /\ stats.status \in {"ok", "error"}
                /\ (exit_code # 0) <=> (stats.status # "ok")

\* the images process_image can decode
Decodable(path) == src_files[path].image # Undecodable

\* C22: an item whose processing fails does not abort the run: when
\* process_image_sets has finished it has not raised, every set has its item
\* list, and every decodable image of every set has its item there
C22_FailedItemDoesNotAbort ==
    SetsFinished =>
       /\ AtMain("returned")
       /\ Len(processed_sets) = Len(image_sets)
       /\ \A s \in DOMAIN image_sets :
             \A i \in DOMAIN image_sets[s].images :
                Decodable(image_sets[s].images[i]) =>
                   \E k \in DOMAIN processed_sets[s].items :
                      processed_sets[s].items[k].label = image_sets[s].images[i]

\* C23: every page plan a layout produces has exactly slots_per_page items, also
\* when the slice size does not divide the slot count
C23_PlanFillsEverySlot ==
    Planned => \A pg \in DOMAIN page_plans.plans :
                  Len(page_plans.plans[pg].items) = tpl.slots_per_page

\* C24: in the parity-striped layout with P > 1 stacks, R rows per stack and N
\* pages, slice k (from 0) of the slice stream lies in stack k div (N*R), on page
\* (k mod (N*R)) div R, in row k mod R of that stack, so stack 0 is filled on all
\* pages before stack 1 starts; every row past the last slice of the stream is a
\* row of placeholders
C24_StackMajorStripes ==
    (Planned /\ ~args.cell_stack_mode /\ args.parity > 1) =>
        LET P == args.parity
            R == (tpl.slots_per_page \div tpl.slice_size) \div P
            plans == page_plans.plans
            N == Len(plans)
        IN /\ N = PagesNeeded(Len(all_slices), P * R)
           /\ \A k \in 0..(P * N * R - 1) :
                 LET stack == k \div (N * R)
                     page == (k % (N * R)) \div R
                     row == k % R
                     placed == RowItems(plans[page + 1], stack * R + row + 1)
                 IN IF k < Len(all_slices)
                    THEN /\ placed = all_slices[k + 1].items
                         /\ plans[page + 1].sets[stack * R + row + 1] = all_slices[k + 1].set
                    ELSE /\ PlaceholderRow(placed)
                         /\ plans[page + 1].sets[stack * R + row + 1] = NoneInt

\* two stacks of two rows over two pages: the first row of stack 1 on the first
\* page holds the fifth slice of the stream, after all four rows of stack 0
C24_Witness ==
    /\ pc = "planned"
    /\ ~args.cell_stack_mode /\ args.parity = 2
    /\ tpl.slots_per_page = 4 /\ tpl.slice_size = 1
    /\ Len(page_plans.plans) = 2
    /\ Len(all_slices) >= 6
    /\ RowItems(page_plans.plans[1], 3) = all_slices[5].items
    /\ RowItems(page_plans.plans[2], 1) = all_slices[3].items

\* the sets of group g (from 1) when the sets are cut in order into groups of C
GroupSets(g, C) == {k \in DOMAIN processed_sets : (k - 1) \div C = g - 1}

\* the pages a group yields: ceil(L / P) for its longest set of L items
GroupPages(g, C, P) ==
    LET L == CHOOSE n \in {Len(processed_sets[k].items) : k \in GroupSets(g, C)} :
                \A k \in GroupSets(g, C) : Len(processed_sets[k].items) <= n
    IN PagesNeeded(L, P)

\* the pages of the groups before group g
RECURSIVE PagesBefore(_, _, _)
PagesBefore(g, C, P) == IF g = 1 THEN 0 ELSE PagesBefore(g - 1, C, P) + GroupPages(g - 1, C, P)

\* C25: in the cell-stacked layout with P > 1 stacks and C = slots_per_page / P
\* cells, the sets are cut in order into groups of C; a group whose longest set
\* has L items yields W = ceil(L / P) pages, and on its page cycle p the slot
\* s*C + c holds item p + s*W of the c-th set of the group when that item
\* exists and a placeholder otherwise, also for the missing sets of a short last
\* group
C25_CellStackPlacement ==
    (Planned /\ args.cell_stack_mode) =>
        LET P == args.parity
            C == tpl.slots_per_page \div P
            groups == PagesNeeded(Len(processed_sets), C)
            plans == page_plans.plans
        IN /\ P > 1
           /\ Len(plans) = PagesBefore(groups + 1, C, P)
           /\ \A g \in 1..groups :
                LET W == GroupPages(g, C, P)
                IN \A p \in 0..(W - 1), s \in 0..(P - 1), c \in 0..(C - 1) :
                      LET held == plans[PagesBefore(g, C, P) + p + 1].items[s * C + c + 1]
                          set == (g - 1) * C + c + 1
                          card == p + s * W
                      IN IF set <= Len(processed_sets) /\ card < Len(processed_sets[set].items)
                         THEN held = processed_sets[set].items[card + 1]
                         ELSE held.meta.placeholder /\ held.image = ONEPIXEL

\* a group of a three-item set and a missing set on four slots in two stacks: two
\* pages; the second stack of the first page starts with the third item, and the
\* cells of the missing set hold placeholders
C25_Witness ==
    /\ pc = "planned"
    /\ args.cell_stack_mode /\ args.parity = 2
    /\ tpl.slots_per_page = 4
    /\ Len(processed_sets) = 1
    /\ Len(processed_sets[1].items) >= 3
    /\ Len(page_plans.plans) = 2
    /\ page_plans.plans[1].items[3] = processed_sets[1].items[3]
    /\ page_plans.plans[1].items[2].meta.placeholder

\* the items of the page plans in page order and slot order, placeholders left out
PlacedRealItems ==
    SelectSeq(Concat([pg \in DOMAIN page_plans.plans |-> page_plans.plans[pg].items]),
              LAMBDA item : ~item.meta.placeholder)

\* C26: in the sequential layout the real items, read in page order and slot
\* order, are the items of the first discovered set in discovery order
\* (increasing global index), then those of the second set, and so on; and
\* set_sequence lists the sets in the same order
C26_DiscoveryOrderKept ==
    (Planned /\ ~args.cell_stack_mode /\ args.parity <= 1) =>
        /\ PlacedRealItems = Concat([k \in DOMAIN processed_sets |-> processed_sets[k].items])
        /\ \A k \in DOMAIN processed_sets :
              \A j \in DOMAIN processed_sets[k].items :
                 /\ processed_sets[k].items[j].meta.set = processed_sets[k].name
                 /\ processed_sets[k].items[j].meta.global_index = j - 1
        /\ stats.set_sequence = [k \in DOMAIN processed_sets |-> processed_sets[k].name]
        /\ \A k \in DOMAIN processed_sets : processed_sets[k].name = SourceSets[k].name

\* a sequential plan of two sets where the first set ends inside a slice, so that
\* a placeholder stands between the items of the two sets
C26_Witness ==
    /\ pc = "planned"
    /\ ~args.cell_stack_mode /\ args.parity <= 1
    /\ Len(processed_sets) = 2
    /\ tpl.slice_size = 2
    /\ Len(processed_sets[1].items) = 1
    /\ Len(processed_sets[2].items) >= 1
    /\ page_plans.plans[1].items[2].meta.placeholder
    /\ Len(PlacedRealItems) = 1 + Len(processed_sets[2].items)

\* C27: whatever the order in which the workers complete, the item list built
\* for a set is as long as the set's list of discovered files and its i-th item
\* is the result for the i-th file
C27_ItemsInFileOrder ==
    main_thread # <<>> =>
       \A k \in DOMAIN processed_sets :
          LET images == image_sets[k].images
              items == processed_sets[k].items
          IN /\ processed_sets[k].name = image_sets[k].name
             /\ Len(items) = Len(images)
             /\ \A i \in DOMAIN images :
                   /\ items[i].original_name = images[i]
                   /\ items[i].label = images[i]
                   /\ images[i] \in DOMAIN cache
                   /\ items[i].image = cache[images[i]][2]

\* the worker of the second file completed first and the item list has been built
C27_Witness ==
    /\ main_thread # <<>>
    /\ Len(processed_sets) = 1
    /\ Len(results) = 2
    /\ results[1][1] = 1
    /\ results[2][1] = 0
    /\ processed_sets[1].items[1].label = "a"
    /\ processed_sets[1].items[2].label = "b"

(***************************************************************************)
(* Consistency of the tokens with the document.                            *)
(***************************************************************************)
\* what tokenization would extract now from the document node of a token
ExtractedNow(token) ==
    IF token.type = "label" THEN extract_text_content(tree, token.element)
    ELSE extract_image_href(tree, token.element)

\* C28: after any sequence of successful modify_token calls every label token
\* and image token has the content tokenization would extract from its document
\* node (the flattened, stripped text; the resolved image reference), also for a
\* label with several tspan children or with direct text of its own
C28_TokensMatchDocument ==
    \A p \in AllTokens :
        LET token == matched_groups[p[1]].tokens[p[2]]
        IN token.type \in {"label", "image"} => ExtractedNow(token) = token.content

=============================================================================
